---- MODULE Spec2Model ----
(***************************************************************************)
(* A model of the file-aware multi-agent project builder:                  *)
(*   - FileManager (file_aware_agent.py): create_file, update_file,        *)
(*     read_file, list_files over a directory tree;                        *)
(*   - FileAwareAgent: _extract_file_blocks, _is_completion_signal,        *)
(*     process_and_execute_file_operations;                                *)
(*   - create_project_workflow: the iteration loop with the test/fix       *)
(*     sub-round and the completion quorum.                                *)
(* Texts are TLA+ strings, handled a character at a time with Len, SubSeq  *)
(* and \o.  A TLA+ string literal cannot hold a backtick, so the character *)
(* BT below stands for the backtick everywhere in the model.               *)
(***************************************************************************)
EXTENDS Integers, Sequences, FiniteSets, TLC

(***************************************************************************)
(* Text helpers (Python str / re semantics).                               *)
(***************************************************************************)
BT == "^"
FENCE == BT \o BT \o BT

Char(s, i) == SubSeq(s, i, i)

\* s[a-1:b] of Python: the characters at positions a..b, cut to the text
Slice(s, a, b) ==
    LET lo == IF a < 1 THEN 1 ELSE a
        hi == IF b > Len(s) THEN Len(s) ELSE b
    IN  IF lo > hi THEN "" ELSE SubSeq(s, lo, hi)

InStr(c, alphabet) == \E i \in 1..Len(alphabet) : Char(alphabet, i) = c

Min(S) == CHOOSE m \in S : \A o \in S : m <= o

UPPERCASE == "ABCDEFGHIJKLMNOPQRSTUVWXYZ"
LOWERCASE == "abcdefghijklmnopqrstuvwxyz"
DIGITS == "0123456789"

\* str.lower() on one character
LowerChar(c) ==
    IF InStr(c, UPPERCASE)
    THEN Char(LOWERCASE, CHOOSE i \in 1..Len(UPPERCASE) : Char(UPPERCASE, i) = c)
    ELSE c

\* str.upper() on one character
UpperChar(c) ==
    IF InStr(c, LOWERCASE)
    THEN Char(UPPERCASE, CHOOSE i \in 1..Len(LOWERCASE) : Char(LOWERCASE, i) = c)
    ELSE c

\* the text with f applied to every character
MapStr(s, f(_)) ==
    LET F[i \in 0..Len(s)] == IF i = 0 THEN "" ELSE F[i - 1] \o f(Char(s, i))
    IN  F[Len(s)]

\* the text without the characters that keep(_) rejects
FilterStr(s, keep(_)) ==
    LET F[i \in 0..Len(s)] ==
            IF i = 0 THEN ""
            ELSE IF keep(Char(s, i)) THEN F[i - 1] \o Char(s, i) ELSE F[i - 1]
    IN  F[Len(s)]

Lower(s) == MapStr(s, LowerChar)
Upper(s) == MapStr(s, UpperChar)

\* sub in s
Contains(s, sub) ==
    \E i \in 1..(Len(s) - Len(sub) + 1) : SubSeq(s, i, i + Len(sub) - 1) = sub

\* s.find(sub, from): the first position (1-based) at or after from, 0 if none
Find(s, sub, from) ==
    LET hits == {i \in from..(Len(s) - Len(sub) + 1) :
                     SubSeq(s, i, i + Len(sub) - 1) = sub}
    IN  IF hits = {} THEN 0 ELSE Min(hits)

StartsWith(s, pre) == Len(pre) <= Len(s) /\ SubSeq(s, 1, Len(pre)) = pre
EndsWith(s, suf) ==
    Len(suf) <= Len(s) /\ SubSeq(s, Len(s) - Len(suf) + 1, Len(s)) = suf

\* \s of re
IsSpace(c) == c \in {" ", "\n", "\t", "\r"}
\* \w of re (ASCII)
IsWord(c) == InStr(c, LOWERCASE) \/ InStr(c, UPPERCASE) \/ InStr(c, DIGITS) \/ c = "_"

\* str.strip()
Strip(s) ==
    LET keep == {i \in 1..Len(s) : ~IsSpace(Char(s, i))}
    IN  IF keep = {} THEN ""
        ELSE SubSeq(s, Min(keep), CHOOSE m \in keep : \A o \in keep : o <= m)

\* s[-n:]
LastChars(s, n) == IF Len(s) <= n THEN s ELSE SubSeq(s, Len(s) - n + 1, Len(s))

(***************************************************************************)
(* FileAwareAgent._is_completion_signal                                    *)
(***************************************************************************)
completion_keywords ==
    << "project is complete",
       "task is complete",
       "implementation is complete",
       "all requirements met",
       "no further improvements needed",
       "ready for deployment",
       "ready to deploy",
       "fully implemented",
       "everything is working",
       "all tests passing",
       "no issues found",
       "project complete",
       "task complete",
       "TASK_DONE",
       "project finished",
       "implementation finished" >>

no_more_words == << "changes", "improvements", "updates", "modifications" >>

\* the loop over completion_keywords: each keyword, as written, is looked up
\* in the lower-cased response
KeywordHit(response_lower) ==
    \E k \in 1..Len(completion_keywords) :
        Contains(response_lower, completion_keywords[k])

NoMoreHit(response_lower) ==
    /\ Contains(response_lower, "no more")
    /\ \E k \in 1..Len(no_more_words) : Contains(response_lower, no_more_words[k])

is_completion_signal(response) ==
    LET response_lower == Lower(response)
    IN  KeywordHit(response_lower) \/ NoMoreHit(response_lower)

(***************************************************************************)
(* Paths.  An absolute path is a sequence of segments; the project         *)
(* directory is output_dir/project_name below the working directory.       *)
(***************************************************************************)
CWD == << "work" >>
ROOT == CWD \o << "generated_projects", "proj" >>

\* the segments of a path text, split at "/"
Split(path) ==
    LET F[i \in 0..Len(path)] ==
            IF i = 0 THEN << "" >>
            ELSE LET done == F[i - 1]
                 IN  IF Char(path, i) = "/" THEN Append(done, "")
                     ELSE [done EXCEPT ![Len(done)] = @ \o Char(path, i)]
    IN  F[Len(path)]

\* pathlib joins and the kernel resolves: "" and "." are dropped, ".." steps
\* up (never above "/"), every other segment steps down
Normalize(base, segs) ==
    LET F[i \in 0..Len(segs)] ==
            IF i = 0 THEN base
            ELSE LET at == F[i - 1]
                 IN  IF segs[i] \in {"", "."} THEN at
                     ELSE IF segs[i] = ".."
                          THEN (IF at = << >> THEN << >>
                                ELSE SubSeq(at, 1, Len(at) - 1))
                     ELSE Append(at, segs[i])
    IN  F[Len(segs)]

\* self.project_path / file_path, as the kernel resolves it; an absolute
\* file_path replaces the project path
FullPath(file_path) ==
    Normalize(IF StartsWith(file_path, "/") THEN << >> ELSE ROOT, Split(file_path))

IsPrefix(p, q) == Len(p) <= Len(q) /\ SubSeq(q, 1, Len(p)) = p
IsProperPrefix(p, q) == Len(p) < Len(q) /\ SubSeq(q, 1, Len(p)) = p
Prefixes(p) == {SubSeq(p, 1, n) : n \in 0..Len(p)}
Parent(p) == SubSeq(p, 1, Len(p) - 1)
Name(p) == p[Len(p)]

InsideRoot(full) == IsProperPrefix(ROOT, full)

\* str(path.relative_to(project_path))
Join(segs) ==
    LET F[i \in 0..Len(segs)] ==
            IF i = 0 THEN ""
            ELSE IF i = 1 THEN segs[1]
            ELSE F[i - 1] \o "/" \o segs[i]
    IN  F[Len(segs)]

RelPath(full) == Join(SubSeq(full, Len(ROOT) + 1, Len(full)))


(***************************************************************************)
(* utils.py: the centralized junk filter                                   *)
(***************************************************************************)
SYSTEM_IGNORE_FILES ==
    { ".DS_Store", ".DS_Store?", "._*", "Thumbs.db", "ehthumbs.db",
      ".Spotlight-V100", ".Trashes", "desktop.ini" }

SYSTEM_IGNORE_DIRS ==
    { "__pycache__", ".git", ".svn", ".hg", "node_modules", ".pytest_cache",
      ".mypy_cache", ".tox", "venv", ".venv", "env", ".env" }

\* should_ignore_file looks at the last segment only
should_ignore_file(file_path) ==
    LET filename == Name(file_path)
    IN  \/ filename \in SYSTEM_IGNORE_FILES
        \/ StartsWith(filename, "._")
        \/ EndsWith(filename, ".backup")
        \/ EndsWith(filename, ".bak")

should_ignore_directory(dirname) ==
    \/ dirname \in SYSTEM_IGNORE_DIRS
    \/ (StartsWith(dirname, ".") /\ dirname \notin {".", ".."})

(***************************************************************************)
(* The order of str, for sorted(): characters by code point.               *)
(***************************************************************************)
CODE_ORDER ==
    "\t\n\r !\"#$%&'()*+,-./0123456789:;<=>?@ABCDEFGHIJKLMNOPQRSTUVWXYZ[\\]_^abcdefghijklmnopqrstuvwxyz{|}~"

Code(c) == CHOOSE i \in 1..Len(CODE_ORDER) : Char(CODE_ORDER, i) = c

StrLess(a, b) ==
    \/ \E i \in 1..Len(b) :
          /\ i <= Len(a) /\ Slice(a, 1, i - 1) = Slice(b, 1, i - 1)
          /\ Code(Char(a, i)) < Code(Char(b, i))
    \/ (Len(a) < Len(b) /\ SubSeq(b, 1, Len(a)) = a)

RECURSIVE Sorted(_)
Sorted(S) ==
    IF S = {} THEN << >>
    ELSE LET least == CHOOSE x \in S : \A y \in S \ {x} : StrLess(x, y)
         IN  << least >> \o Sorted(S \ {least})

(***************************************************************************)
(* FileManager.  The state of a file manager is a record fm:               *)
(*   files        : absolute path -> content, the regular files on disk    *)
(*   dirs         : the directories on disk                                *)
(*   file_history : self.file_history                                      *)
(* Every operation returns [fm |-> the state after, ok |-> its result].    *)
(***************************************************************************)
NewFileManager ==
    [ files |-> << >>, dirs |-> Prefixes(ROOT), file_history |-> << >> ]

IsFile(fm, full) == full \in DOMAIN fm.files
IsDir(fm, full) == full \in fm.dirs
Exists(fm, full) == IsFile(fm, full) \/ IsDir(fm, full)

WriteFile(files, full, content) ==
    [p \in (DOMAIN files) \cup {full} |-> IF p = full THEN content ELSE files[p]]

HistoryEntry(action, file_path, agent_name, success) ==
    [ action |-> action, file |-> file_path, agent |-> agent_name,
      success |-> success ]

\* full_path.parent.mkdir(parents=True, exist_ok=True) succeeds unless a
\* path component is a regular file
MkdirOk(fm, dir) == \A p \in Prefixes(dir) : ~IsFile(fm, p)

\* open(full_path, 'w') succeeds when the parent is a directory and the
\* target is not one
OpenWriteOk(fm, full) ==
    /\ full # << >>
    /\ IsDir(fm, Parent(full))
    /\ ~IsDir(fm, full)

\* a write that first copies the content of an existing file to its backup
CreatedFilesWithBackup(files, full, content) ==
    IF full \in DOMAIN files
    THEN WriteFile(WriteFile(files, Append(Parent(full), Name(full) \o ".backup"),
                             files[full]),
                   full, content)
    ELSE WriteFile(files, full, content)

\* with open(full_path, 'w') as f: f.write(content)
CreatedFiles(files, full, content) == WriteFile(files, full, content)

create_file(fm, file_path, content, agent_name) ==
    LET full == FullPath(file_path)
        made == [fm EXCEPT !.dirs = @ \cup Prefixes(Parent(full))]
    IN  IF MkdirOk(fm, Parent(full)) /\ OpenWriteOk(made, full)
        THEN [ fm |-> [made EXCEPT
                         !.files = CreatedFiles(@, full, content),
                         !.file_history =
                             Append(@, HistoryEntry("create", file_path, agent_name, TRUE))],
               ok |-> TRUE ]
        ELSE [ fm |-> [fm EXCEPT
                         !.file_history =
                             Append(@, HistoryEntry("create", file_path, agent_name, FALSE))],
               ok |-> FALSE ]

\* full_path.with_suffix(full_path.suffix + '.backup')
\* a backup copy named with the suffix .bak
BackupWithBakSuffix(full) == Append(Parent(full), Name(full) \o ".bak")

BackupPath(full) == Append(Parent(full), Name(full) \o ".backup")

\* update_file without the "content is the same" return: it backs the file up
\* and writes it whenever it exists
update_file_always_writes(fm, file_path, content, agent_name) ==
    LET full == FullPath(file_path)
        failed == [ fm |-> fm, ok |-> FALSE ]
        written(f) ==
            [ fm |-> [f EXCEPT
                        !.files = WriteFile(@, full, content),
                        !.file_history =
                            Append(@, HistoryEntry("update", file_path, agent_name, TRUE))],
              ok |-> TRUE ]
    IN  IF IsDir(fm, full) THEN failed
        ELSE IF IsFile(fm, full)
        THEN IF OpenWriteOk(fm, BackupPath(full))
             THEN written([fm EXCEPT
                             !.files = WriteFile(@, BackupPath(full), fm.files[full])])
             ELSE failed
        ELSE IF OpenWriteOk(fm, full) THEN written(fm)
        ELSE failed

update_file(fm, file_path, content, agent_name) ==
    LET full == FullPath(file_path)
        failed == [ fm |-> fm, ok |-> FALSE ]
        written(f) ==
            [ fm |-> [f EXCEPT
                        !.files = WriteFile(@, full, content),
                        !.file_history =
                            Append(@, HistoryEntry("update", file_path, agent_name, TRUE))],
              ok |-> TRUE ]
    IN  IF IsDir(fm, full) THEN failed
        ELSE IF IsFile(fm, full)
        THEN IF fm.files[full] # content
             THEN IF OpenWriteOk(fm, BackupPath(full))
                  THEN written([fm EXCEPT
                                  !.files = WriteFile(@, BackupPath(full), fm.files[full])])
                  ELSE failed
             ELSE [ fm |-> fm, ok |-> TRUE ]
        ELSE IF OpenWriteOk(fm, full) THEN written(fm)
        ELSE failed

\* read_file: the content, or None
read_file(fm, file_path) ==
    LET full == FullPath(file_path)
    IN  IF IsFile(fm, full) THEN [ ok |-> TRUE, content |-> fm.files[full] ]
        ELSE [ ok |-> FALSE, content |-> "" ]

\* list_files: glob("**/*") below the project path, regular files only,
\* without those should_ignore_file rejects, relative, sorted
list_files(fm) ==
    Sorted({RelPath(f) : f \in {g \in DOMAIN fm.files :
                                   InsideRoot(g) /\ ~should_ignore_file(g)}})


(***************************************************************************)
(* FileAwareAgent._extract_file_blocks                                     *)
(*   pattern = FENCE (?:filename|update|read): \s* (\S+) \s* \n (.*?) FENCE *)
(*   with re.DOTALL, matched by re.findall from left to right.             *)
(***************************************************************************)
PATTERN_MARKERS == << "filename", "update", "read" >>

\* the first position at or after i whose character is not (is) a space;
\* Len(text) + 1 when there is none
SkipSpaces(text, i) ==
    LET stops == {j \in i..Len(text) : ~IsSpace(Char(text, j))}
    IN  IF stops = {} THEN Len(text) + 1 ELSE Min(stops)

SkipNonSpaces(text, i) ==
    LET stops == {j \in i..Len(text) : IsSpace(Char(text, j))}
    IN  IF stops = {} THEN Len(text) + 1 ELSE Min(stops)

NoMatch == [ ok |-> FALSE, path |-> "", body |-> "", next |-> 0 ]

\* the match of the pattern that starts exactly at position i, if any.
\* \s* and \S+ are greedy, so (\S+) is the whole run of non-space characters
\* and \n is the last line break of the white space that follows it; (.*?)
\* is lazy, so the body ends at the first fence after that.
MatchAt(text, i) ==
    LET heads == {k \in 1..Len(PATTERN_MARKERS) :
                     Slice(text, i, i + Len(FENCE \o PATTERN_MARKERS[k] \o ":") - 1)
                         = FENCE \o PATTERN_MARKERS[k] \o ":"}
    IN  IF heads = {} THEN NoMatch
        ELSE
        LET k      == Min(heads)
            afterH == i + Len(FENCE \o PATTERN_MARKERS[k] \o ":")
            pStart == SkipSpaces(text, afterH)
            pEnd   == SkipNonSpaces(text, pStart)
            wEnd   == SkipSpaces(text, pEnd)
            breaks == {j \in pEnd..(wEnd - 1) : Char(text, j) = "\n"}
        IN  IF pStart > Len(text) \/ breaks = {} THEN NoMatch
            ELSE
            LET bStart == (CHOOSE m \in breaks : \A o \in breaks : o <= m) + 1
                close  == Find(text, FENCE, bStart)
            IN  IF close = 0 THEN NoMatch
                ELSE [ ok   |-> TRUE,
                       path |-> SubSeq(text, pStart, pEnd - 1),
                       body |-> Slice(text, bStart, close - 1),
                       next |-> close + Len(FENCE) ]

\* re.findall: the matches from left to right, none overlapping
RECURSIVE FindAll(_, _)
FindAll(text, i) ==
    IF i > Len(text) THEN << >>
    ELSE LET m == MatchAt(text, i)
         IN  IF m.ok THEN << << m.path, m.body >> >> \o FindAll(text, m.next)
             ELSE FindAll(text, i + 1)

\* the three replace() calls, the re.sub of [^\w\s\-_./], then strip()
SanitizeKeep(c) == IsWord(c) \/ IsSpace(c) \/ c \in {"-", "_", ".", "/"}
NotQuote(c) == c \notin {BT, "\"", "'"}
SanitizePath(raw) == Strip(FilterStr(FilterStr(Strip(raw), NotQuote), SanitizeKeep))

WINDOW == 50

\* "Determine operation type": first a guess from the whole text, then
\* "Find which operation it actually is" from the 50 characters before the
\* first place where the raw path token occurs in the text
OperationOf(text, raw) ==
    LET guess ==
            IF Contains(text, FENCE \o "filename:") \/ Contains(text, FENCE \o "create:")
            THEN "create"
            ELSE IF Contains(text, FENCE \o "update:") THEN "update"
            ELSE IF Contains(text, FENCE \o "read:") THEN "read"
            ELSE "create"
        before_match == Slice(text, 1, Find(text, raw, 1) - 1)
        tail == LastChars(before_match, WINDOW)
    IN  IF Contains(tail, FENCE \o "update:") THEN "update"
        ELSE IF Contains(tail, FENCE \o "read:") THEN "read"
        ELSE IF Contains(tail, FENCE \o "filename:") \/ Contains(tail, FENCE \o "create:")
        THEN "create"
        ELSE guess

\* the loop over the matches: (operation, file_path, content) per match,
\* a match whose sanitized path is empty is skipped
BlocksOf(text, matches) ==
    LET F[n \in 0..Len(matches)] ==
            IF n = 0 THEN << >>
            ELSE LET raw == Strip(matches[n][1])
                     file_path == SanitizePath(matches[n][1])
                 IN  IF file_path = "" THEN F[n - 1]
                     ELSE Append(F[n - 1],
                                 << OperationOf(text, raw), file_path,
                                    Strip(matches[n][2]) >>)
    IN  F[Len(matches)]

extract_file_blocks(text) == BlocksOf(text, FindAll(text, 1))

(***************************************************************************)
(* FileAwareAgent.process_and_execute_file_operations                      *)
(***************************************************************************)
NoOperations == [ created |-> << >>, updated |-> << >>, read |-> << >>, errors |-> << >> ]

\* a loop that gives up the rest of the reply once an operation has failed
ExecuteBlockUntilError(st, block, name) ==
    IF st.operations.errors # << >> THEN st
    ELSE IF block[1] = "create"
    THEN LET r == create_file(st.fm, block[2], block[3], name)
         IN  [ fm |-> r.fm,
               operations |->
                  IF r.ok
                  THEN [st.operations EXCEPT !.created = Append(@, block[2])]
                  ELSE [st.operations EXCEPT
                          !.errors = Append(@, "Failed to create " \o block[2])] ]
    ELSE LET r == update_file(st.fm, block[2], block[3], name)
         IN  [ fm |-> r.fm,
               operations |->
                  IF r.ok
                  THEN [st.operations EXCEPT !.updated = Append(@, block[2])]
                  ELSE [st.operations EXCEPT
                          !.errors = Append(@, "Failed to update " \o block[2])] ]

\* one (operation, file_path, content) applied to st = [fm, operations]
ExecuteBlock(st, block, name) ==
    LET operation == block[1]
        file_path == block[2]
        content   == block[3]
    IN  CASE operation = "create" ->
               LET r == create_file(st.fm, file_path, content, name)
               IN  [ fm |-> r.fm,
                     operations |->
                        IF r.ok
                        THEN [st.operations EXCEPT !.created = Append(@, file_path)]
                        ELSE [st.operations EXCEPT
                                !.errors = Append(@, "Failed to create " \o file_path)] ]
          [] operation = "update" ->
               LET r == update_file(st.fm, file_path, content, name)
               IN  [ fm |-> r.fm,
                     operations |->
                        IF r.ok
                        THEN [st.operations EXCEPT !.updated = Append(@, file_path)]
                        ELSE [st.operations EXCEPT
                                !.errors = Append(@, "Failed to update " \o file_path)] ]
          [] OTHER ->
               LET r == read_file(st.fm, file_path)
               IN  [ fm |-> st.fm,
                     operations |->
                        IF r.ok /\ r.content # ""
                        THEN [st.operations EXCEPT
                                !.read = Append(@, << file_path, r.content >>)]
                        ELSE [st.operations EXCEPT
                                !.errors = Append(@, "Failed to read " \o file_path)] ]

process_and_execute_file_operations(fm, name, response_content) ==
    LET file_blocks == extract_file_blocks(response_content)
        F[n \in 0..Len(file_blocks)] ==
            IF n = 0 THEN [ fm |-> fm, operations |-> NoOperations ]
            ELSE ExecuteBlock(F[n - 1], file_blocks[n], name)
    IN  F[Len(file_blocks)]


(***************************************************************************)
(* TestExecutor (test_executor.py).                                        *)
(***************************************************************************)
IsDigit(c) == InStr(c, DIGITS)

\* int() of a run of digits
ToInt(ds) ==
    LET F[i \in 0..Len(ds)] ==
            IF i = 0 THEN 0
            ELSE 10 * F[i - 1] +
                 ((CHOOSE d \in 1..Len(DIGITS) : Char(DIGITS, d) = Char(ds, i)) - 1)
    IN  F[Len(ds)]

\* the end of the run of digits that starts at position i
DigitsEnd(s, i) ==
    LET stops == {j \in i..Len(s) : ~IsDigit(Char(s, j))}
    IN  IF stops = {} THEN Len(s) ELSE Min(stops) - 1

\* the positions, from lo to hi, where (\d+) followed by suffix matches
NumberStarts(s, suffix, lo, hi) ==
    {i \in lo..hi :
        /\ IsDigit(Char(s, i))
        /\ Slice(s, DigitsEnd(s, i) + 1, DigitsEnd(s, i) + Len(suffix)) = suffix
        /\ DigitsEnd(s, i) + Len(suffix) <= hi}

NumberAt(s, i) == ToInt(SubSeq(s, i, DigitsEnd(s, i)))

\* re.search(r'(\d+)<suffix>', s): group 1 of the leftmost match, -1 if none
NumberBefore(s, suffix) ==
    LET starts == NumberStarts(s, suffix, 1, Len(s))
    IN  IF starts = {} THEN -1 ELSE NumberAt(s, Min(starts))

\* re.search(r'<prefix>(\d+)<suffix>', s): group 1 of the leftmost match, -1 if none
NumberBetween(s, prefix, suffix) ==
    LET starts == {i \in NumberStarts(s, suffix, 1, Len(s)) :
                      Slice(s, i - Len(prefix), i - 1) = prefix}
    IN  IF starts = {} THEN -1 ELSE NumberAt(s, Min(starts))

\* len(re.findall(sub, s)) for a literal sub
CountOf(s, sub) ==
    Cardinality({i \in 1..(Len(s) - Len(sub) + 1) : SubSeq(s, i, i + Len(sub) - 1) = sub})

\* the end of the line that position i is on
LineEnd(s, i) ==
    LET breaks == {j \in i..Len(s) : Char(s, j) = "\n"}
    IN  IF breaks = {} THEN Len(s) ELSE Min(breaks) - 1

\* re.search(r'Tests:\s+(\d+) failed.*?(\d+) passed.*?(\d+) total', s), step
\* by step: f, p and ts are where the three numbers start, eol is the end of
\* the line (the gaps do not cross a line break)
JestGroups(s, f, p, ts) ==
    IF ts = {} THEN << >>
    ELSE << NumberAt(s, f), NumberAt(s, p), NumberAt(s, Min(ts)) >>

JestTotal(s, f, p, eol) ==
    JestGroups(s, f, p, NumberStarts(s, " total", DigitsEnd(s, p) + 8, eol))

JestPassed(s, f, ps, eol) ==
    IF ps = {} THEN << >> ELSE JestTotal(s, f, Min(ps), eol)

JestLine(s, f, eol) ==
    JestPassed(s, f, NumberStarts(s, " passed", DigitsEnd(s, f) + 8, eol), eol)

JestFailed(s, from, f) ==
    IF f > from /\ NumberStarts(s, " failed", f, Len(s)) \cap {f} # {}
    THEN JestLine(s, f, LineEnd(s, DigitsEnd(s, f) + 8))
    ELSE << >>

\* the three groups of a match that starts at position i, << >> if none
JestAt(s, i) ==
    IF Slice(s, i, i + 5) = "Tests:"
    THEN JestFailed(s, i + 6, SkipSpaces(s, i + 6))
    ELSE << >>

\* the three groups of the leftmost match, << >> if none
JestSummary(s) ==
    LET hits == {i \in 1..Len(s) : JestAt(s, i) # << >>}
    IN  IF hits = {} THEN << >> ELSE JestAt(s, Min(hits))

\* where failures=(\d+) can match on the line of a "FAILED (" at position i
FailuresAt(s, i) ==
    {j \in (i + 8)..LineEnd(s, i + 8) :
        /\ Slice(s, j, j + 8) = "failures="
        /\ j + 9 <= LineEnd(s, i + 8)
        /\ IsDigit(Char(s, j + 9))}

\* re.search(r'FAILED \(.*?failures=(\d+)', s): group 1, -1 if none
UnittestFailures(s) ==
    LET tries == {i \in 1..Len(s) :
                     Slice(s, i, i + 7) = "FAILED (" /\ FailuresAt(s, i) # {}}
    IN  IF tries = {} THEN -1
        ELSE NumberAt(s, Min(FailuresAt(s, Min(tries))) + 9)

Counts(total_tests, passed, failed) ==
    [ total_tests |-> total_tests, passed |-> passed, failed |-> failed ]

\* the pytest branch: p and f are the numbers before " passed" and " failed"
PytestCounts(p, f) ==
    Counts((IF p < 0 THEN 0 ELSE p) + (IF f < 0 THEN 0 ELSE f),
           IF p < 0 THEN 0 ELSE p, IF f < 0 THEN 0 ELSE f)

\* the unittest branch: r is the number of "Ran r test", ok is "OK" in the
\* output, f is the number of failures=f
UnittestCounts(r, ok, f) ==
    IF ok THEN Counts(IF r < 0 THEN 0 ELSE r, IF r < 0 THEN 0 ELSE r, 0)
    ELSE IF f >= 0 THEN Counts(IF r < 0 THEN 0 ELSE r, (IF r < 0 THEN 0 ELSE r) - f, f)
    ELSE Counts(IF r < 0 THEN 0 ELSE r, 0, 0)

\* the jest branch: m is the groups of the summary line
JestCounts(m) ==
    IF m = << >> THEN Counts(0, 0, 0) ELSE Counts(m[3], m[2], m[1])

\* the go branch: the numbers of PASS and FAIL lines
GoCounts(passed, failed) == Counts(passed + failed, passed, failed)

\* the counts the framework branches of _parse_test_output extract, for the
\* lower-cased framework fw
CountsFor(fw, full_output) ==
    IF Contains(fw, "pytest")
    THEN PytestCounts(NumberBefore(full_output, " passed"),
                      NumberBefore(full_output, " failed"))
    ELSE IF Contains(fw, "unittest")
    THEN UnittestCounts(NumberBetween(full_output, "Ran ", " test"),
                        Contains(full_output, "OK"),
                        UnittestFailures(full_output))
    ELSE IF Contains(fw, "jest") \/ Contains(fw, "npm test")
    THEN JestCounts(JestSummary(full_output))
    ELSE IF Contains(fw, "go test")
    THEN GoCounts(CountOf(full_output, "--- PASS:"), CountOf(full_output, "--- FAIL:"))
    ELSE Counts(0, 0, 0)

ParsedCounts(framework, full_output) == CountsFor(Lower(framework), full_output)

\* results that leave a run without parsed counts as it is
ParsedResultsWithoutFallback(counts, returncode, framework) ==
    [ success     |-> returncode = 0,
      framework   |-> framework,
      total_tests |-> counts.total_tests,
      passed      |-> counts.passed,
      failed      |-> counts.failed,
      errors      |-> << >>,
      returncode  |-> returncode ]

\* the results dictionary for the parsed counts, without the failure
\* excerpts and the captured output
ParsedResults(counts, returncode, framework) ==
    [ success     |-> returncode = 0,
      framework   |-> framework,
      total_tests |-> counts.total_tests,
      passed      |-> counts.passed,
      failed      |-> IF counts.total_tests = 0 /\ returncode # 0 THEN 1
                      ELSE counts.failed,
      errors      |-> IF counts.total_tests = 0 /\ returncode # 0
                      THEN << "Tests failed but couldn't parse detailed results" >>
                      ELSE << >>,
      returncode  |-> returncode ]

\* _parse_test_output
parse_test_output(stdout, stderr, returncode, framework) ==
    ParsedResults(ParsedCounts(framework, stdout \o "\n" \o stderr),
                  returncode, framework)

\* the report of a run that produced no parsed output
\* an error report that counts as a passing run
ErrorReportAsSuccess(framework, error, errors) ==
    [ success |-> TRUE, error |-> error, framework |-> framework, total_tests |-> 0,
      passed |-> 0, failed |-> 0, errors |-> errors ]

ErrorReport(framework, error, errors) ==
    [ success |-> FALSE, error |-> error, framework |-> framework, total_tests |-> 0,
      passed |-> 0, failed |-> 0, errors |-> errors ]

NoCommand == ""

\* pytest.ini, setup.py, or a test_*.py or *_test.py entry, among the names
\* of the project directory's entries
PythonMarkers(top) ==
    \/ "pytest.ini" \in top
    \/ "setup.py" \in top
    \/ \E n \in top : StartsWith(n, "test_") /\ EndsWith(n, ".py")
    \/ \E n \in top : EndsWith(n, "_test.py")

DetectAmong(top, env) ==
    IF PythonMarkers(top)
    THEN (IF env.has_pytest THEN "pytest -v" ELSE "python -m unittest discover -v")
    ELSE IF "package.json" \in top
    THEN (IF env.npm_test_script THEN "npm test" ELSE "jest")
    ELSE IF \E n \in top : EndsWith(n, "_test.go") THEN "go test ./... -v"
    ELSE IF "Cargo.toml" \in top THEN "cargo test"
    ELSE IF "pom.xml" \in top THEN "mvn test"
    ELSE IF "build.gradle" \in top THEN "gradle test"
    ELSE NoCommand

\* the names of the entries of the project directory itself
TopLevel(fm) ==
    { Name(g) : g \in { h \in (DOMAIN fm.files) \cup fm.dirs : Parent(h) = ROOT } }

\* detect_test_framework: the marker files of the project directory itself.
\* env.has_pytest: the pytest executable can be started; env.npm_test_script:
\* package.json loads as JSON with a scripts.test entry.
detect_test_framework(fm, env) == DetectAmong(TopLevel(fm), env)

\* what run_tests returns for test_command.  outcome is what the child
\* process did: it exited (returncode, stdout, stderr), it timed out, or it
\* could not be started.
ReportOf(test_command, outcome) ==
    IF test_command = NoCommand
    THEN ErrorReport(NoCommand,
             "No test framework detected. Please create tests or specify test command.",
             << >>)
    ELSE IF outcome.kind = "exit"
    THEN parse_test_output(outcome.stdout, outcome.stderr,
                           outcome.returncode, test_command)
    ELSE IF outcome.kind = "timeout"
    THEN ErrorReport(test_command, "Tests timed out after 5 minutes",
             << "Test execution exceeded 5 minute timeout" >>)
    ELSE ErrorReport(test_command, "Failed to run tests: " \o outcome.stderr,
             << outcome.stderr >>)

\* the report is appended to the history unless there was no command to run
Recorded(te, test_command, report) ==
    [ report |-> report,
      test_history |-> IF test_command = NoCommand THEN te.test_history
                       ELSE Append(te.test_history, report) ]

RunCommand(te, test_command, outcome) ==
    Recorded(te, test_command, ReportOf(test_command, outcome))

\* run_tests on the test executor te = [test_history]: returns
\* [report, test_history]
run_tests(te, fm, custom_command, env, outcome) ==
    RunCommand(te,
               IF custom_command # NoCommand THEN custom_command
               ELSE detect_test_framework(fm, env),
               outcome)


(***************************************************************************)
(* State.                                                                  *)
(***************************************************************************)
VARIABLES
    fm,         \* the FileManager of the run: [files, dirs, file_history]
    calls,      \* how many calls a client of the classes has made so far
    last,       \* the last such call: its arguments, its result, and the
                \* FileManager state it started from
    config,     \* the arguments of create_project_workflow
    model_replies,  \* the replies the language model can give in this run
    test_outcomes,  \* what the test child process can do in this run
    exception,  \* None, or the exception that left create_project_workflow
    context,    \* None, or the context built for the last agent turn
    pc,         \* where create_project_workflow stands
    file_agents,    \* the agents built from config.agents: [role, name]
    test_executor,  \* None, or the TestExecutor: [test_history]
    iteration,  \* the loop variable of the iteration loop (counted from 0)
    agent_index,    \* the agent of file_agents whose turn is next
    dev_index,  \* the developer whose fix turn is next
    iteration_completion_count,
    completion_signals,
    all_operations,
    test_results,
    result,     \* None, or the dictionary create_project_workflow returned
    test_runs,  \* run_tests calls made so far in the current iteration
    fix_rounds, \* fix rounds begun so far in the current iteration
    quorum_stop \* the iteration loop was left through its break

workflow_vars ==
    << config, model_replies, test_outcomes, exception, context, pc,
       file_agents, test_executor, iteration,
       agent_index, dev_index, iteration_completion_count, completion_signals,
       all_operations, test_results, result, test_runs, fix_rounds, quorum_stop >>

vars == << fm, calls, last, workflow_vars >>

NoCall ==
    [ op |-> "none", file_path |-> "", content |-> "", response |-> "",
      ok |-> FALSE, listing |-> << >>, operations |-> NoOperations,
      signal |-> FALSE, blocks |-> << >>, file_blocks |-> << >>,
      before |-> NewFileManager ]

(***************************************************************************)
(* create_project_workflow (file_aware_agent.py), with collaborative       *)
(* review, project-manager coordination, the security scan, TDD mode and   *)
(* the company enhancements switched off or not installed.                 *)
(***************************************************************************)
None == << >>

\* AGENT_CONFIGS of specialized_agent.py: the role of every agent type
AGENT_CONFIGS ==
    [ ceo                |-> [ role |-> "CEO" ],
      product_manager    |-> [ role |-> "Product Manager" ],
      lead_developer     |-> [ role |-> "Lead Developer" ],
      backend_developer  |-> [ role |-> "Backend Developer" ],
      frontend_developer |-> [ role |-> "Frontend Developer" ],
      qa_tester          |-> [ role |-> "QA Tester" ],
      devops             |-> [ role |-> "DevOps Engineer" ],
      designer           |-> [ role |-> "UI/UX Designer" ],
      security           |-> [ role |-> "Security Expert" ],
      tech_writer        |-> [ role |-> "Technical Writer" ],
      data_scientist     |-> [ role |-> "Data Scientist" ] ]

\* the defaults of the keyword arguments
DEFAULT_MAX_ITERATIONS == 10
DEFAULT_MIN_ITERATIONS == 2

DefaultConfig ==
    [ agents           |-> << [ type |-> "backend_developer", name |-> "Bob" ] >>,
      max_iterations   |-> DEFAULT_MAX_ITERATIONS,
      stop_on_complete |-> TRUE,
      min_iterations   |-> DEFAULT_MIN_ITERATIONS,
      enable_testing   |-> TRUE,
      test_command     |-> NoCommand ]

\* the state at the call of create_project_workflow(config)
WorkflowStart(cfg, replies, outcomes) ==
    /\ config = cfg
    /\ model_replies = replies
    /\ test_outcomes = outcomes
    /\ exception = None
    /\ context = None
    /\ pc = "start"
    /\ file_agents = << >>
    /\ test_executor = None
    /\ iteration = 0
    /\ agent_index = 1
    /\ dev_index = 1
    /\ iteration_completion_count = 0
    /\ completion_signals = << >>
    /\ all_operations = << >>
    /\ test_results = None
    /\ result = None
    /\ test_runs = 0
    /\ fix_rounds = 0
    /\ quorum_stop = FALSE

\* where iteration i begins: the agents' turns, the test stage when there are
\* no agents, or the end of the loop when range(max_iterations) is exhausted
IterationStart(i, roster_size) ==
    IF i >= config.max_iterations THEN "finish"
    ELSE IF roster_size = 0 THEN "tests"
    ELSE "turn"

\* a fix round that every agent of the roster takes part in
EveryoneIsDeveloper(a) == TRUE

\* [a for a in file_agents if "developer" in a.role.lower()]
IsDeveloper(a) == Contains(Lower(a.role), "developer")
\* a fix round for the first developer of the roster only
first_developer_only ==
    IF SelectSeq(file_agents, IsDeveloper) = << >> THEN << >>
    ELSE << Head(SelectSeq(file_agents, IsDeveloper)) >>

developer_agents == SelectSeq(file_agents, IsDeveloper)

\* a gate that opens one iteration early
GateOneEarly(stop_on_complete, i, min_iterations) ==
    stop_on_complete /\ i >= min_iterations - 2

\* the condition of the completion check: auto-stop is on and the iteration
\* has passed the min-iterations gate
GatePassed(stop_on_complete, i, min_iterations) ==
    stop_on_complete /\ i >= min_iterations - 1

\* a quorum that a count of 60% of the roster already satisfies
QuorumAtSixtyPercent(count, roster_size) == 10 * count >= 6 * roster_size

\* iteration_completion_count / len(file_agents) >= 0.7
QuorumReached(count, roster_size) == 10 * count >= 7 * roster_size

\* a test stage that answers a failing re-test like a failing first run
AfterTestsWithRetry(phase, report, i, max_iterations, developers) ==
    IF ~report.success /\ i < max_iterations - 1 /\ developers # << >>
    THEN "fix" ELSE "check"

\* where the workflow goes after a run_tests call: after the run that follows
\* the agents' turns, to a fix round if the report is a failure, this is not
\* the last iteration and there are developers; after the re-run, on
AfterTests(phase, report, i, max_iterations, developers) ==
    IF phase = "tests" /\ ~report.success /\ i < max_iterations - 1
       /\ developers # << >>
    THEN "fix" ELSE "check"

NewTestExecutor == [ test_history |-> << >> ]

\* the environment of a test run, and what the child process does: the
\* tests pass, or one fails
Envs == [ has_pytest : {TRUE}, npm_test_script : {FALSE} ]

Outcomes ==
    { [ kind |-> "exit", returncode |-> 0, stdout |-> "1 passed in 0.01s", stderr |-> "" ],
      [ kind |-> "exit", returncode |-> 1, stdout |-> "1 failed in 0.01s", stderr |-> "" ] }

\* the exceptions that leave create_project_workflow
KeyError(key) == [ type |-> "KeyError", message |-> key ]
ZeroDivisionError == [ type |-> "ZeroDivisionError", message |-> "division by zero" ]

\* the first agent type of the roster that AGENT_CONFIGS does not hold
FirstUnknownType(agents) ==
    LET unknown == { i \in 1..Len(agents) : agents[i].type \notin DOMAIN AGENT_CONFIGS }
    IN  agents[CHOOSE i \in unknown : \A j \in unknown : i <= j].type

\* the agents are built; an agent type that AGENT_CONFIGS does not hold
\* raises KeyError
Setup ==
    /\ pc = "start"
    /\ test_executor' = IF config.enable_testing THEN NewTestExecutor ELSE None
    /\ IF \A i \in 1..Len(config.agents) :
              config.agents[i].type \in DOMAIN AGENT_CONFIGS
       THEN /\ file_agents' =
                   [ i \in 1..Len(config.agents) |->
                       [ role |-> AGENT_CONFIGS[config.agents[i].type].role,
                         name |-> config.agents[i].name ] ]
            /\ pc' = IterationStart(0, Len(config.agents))
            /\ exception' = None
       ELSE /\ file_agents' = << >>
            /\ pc' = "aborted"
            /\ exception' = KeyError(FirstUnknownType(config.agents))
    /\ UNCHANGED << fm, calls, last, config, model_replies, test_outcomes, context, iteration,
                    agent_index, dev_index, iteration_completion_count,
                    completion_signals, all_operations, test_results, result,
                    test_runs, fix_rounds, quorum_stop >>

\* get_project_structure: for every listed file its depth below the project
\* directory and its name, or "Project is empty"
ProjectStructure(listing) ==
    IF listing = << >> THEN << "Project is empty" >>
    ELSE << "Project Structure:" >>
         \o [ n \in 1..Len(listing) |->
                << Len(Split(listing[n])) - 1, Name(Split(listing[n])) >> ]

\* files_content: "--- path ---" and the content read_file returns, for
\* every file of the listing
FilesContent(f, listing) ==
    [ n \in 1..Len(listing) |->
        << listing[n], read_file(f, listing[n]).content >> ]

\* a context that shows the files without their contents
BuildContextWithoutContents(f, i) ==
    [ structure |-> ProjectStructure(list_files(f)),
      files     |-> IF i = 0 THEN << >>
                    ELSE [ n \in 1..Len(list_files(f)) |-> << list_files(f)[n], "" >> ] ]

\* the context of an agent's turn: in the first iteration the project
\* structure, in the later ones the structure and every existing file
BuildContext(f, i) ==
    [ structure |-> ProjectStructure(list_files(f)),
      files     |-> IF i = 0 THEN << >> ELSE FilesContent(f, list_files(f)) ]

\* fix_context: every existing file (with the test feedback)
FixContext(f) ==
    [ structure |-> << >>, files |-> FilesContent(f, list_files(f)) ]

\* the agent's reply has been parsed and applied (r): the operations are
\* recorded, and a completion signal is counted as a vote
Applied(agent, r, votes) ==
    /\ fm' = r.fm
    /\ all_operations' =
           Append(all_operations,
                  [ iteration |-> iteration + 1, agent |-> agent.name,
                    operations |-> r.operations ])
    /\ iteration_completion_count' =
           IF votes THEN iteration_completion_count + 1
           ELSE iteration_completion_count
    /\ completion_signals' =
           IF votes
           THEN Append(completion_signals,
                       [ agent |-> agent.name, iteration |-> iteration + 1 ])
           ELSE completion_signals

\* a vote that is counted whether auto-stop is on or off
VoteCountedAlways(stop_on_complete, response) == is_completion_signal(response)

\* if stop_on_complete and agent._is_completion_signal(response.content)
VoteCounted(stop_on_complete, response) ==
    stop_on_complete /\ is_completion_signal(response)

\* one agent's turn of the iteration
AgentTurn ==
    /\ pc = "turn"
    /\ \E response \in model_replies :
          Applied(file_agents[agent_index],
                  process_and_execute_file_operations(
                      fm, file_agents[agent_index].name, response),
                  VoteCounted(config.stop_on_complete, response))
    /\ context' = BuildContext(fm, iteration)
    /\ agent_index' = IF agent_index < Len(file_agents) THEN agent_index + 1 ELSE 1
    /\ pc' = IF agent_index < Len(file_agents) THEN "turn" ELSE "tests"
    /\ UNCHANGED << calls, last, config, model_replies, test_outcomes, exception, file_agents,
                    test_executor, iteration, dev_index, test_results, result,
                    test_runs, fix_rounds, quorum_stop >>

\* the agent whose step is being taken: in the agents' turns the agent of
\* the inner loop, in a fix round the developer
CurrentAgent(stage) ==
    IF stage = "fix" THEN developer_agents[dev_index] ELSE file_agents[agent_index]

\* raise RuntimeError(f"LLM invocation failed for {self.name}: {str(e)}")
LLMInvocationFailed(name) ==
    [ type |-> "RuntimeError", message |-> "LLM invocation failed for " \o name ]

\* a workflow that notes the failure, takes an empty reply in its place and
\* goes on
GenerationFailsWithDefault ==
    /\ pc = "turn"
    /\ exception' = LLMInvocationFailed(file_agents[agent_index].name)
    /\ Applied(file_agents[agent_index],
               process_and_execute_file_operations(
                   fm, file_agents[agent_index].name, ""),
               FALSE)
    /\ context' = BuildContext(fm, iteration)
    /\ agent_index' = IF agent_index < Len(file_agents) THEN agent_index + 1 ELSE 1
    /\ pc' = IF agent_index < Len(file_agents) THEN "turn" ELSE "tests"
    /\ UNCHANGED << calls, last, config, model_replies, test_outcomes,
                    file_agents, test_executor, iteration, dev_index,
                    test_results, result, test_runs, fix_rounds, quorum_stop >>

\* agent.step raises RuntimeError (the model could not be invoked); nothing
\* catches it
GenerationFails ==
    /\ pc \in { "turn", "fix" }
    /\ pc' = "aborted"
    /\ exception' = LLMInvocationFailed(CurrentAgent(pc).name)
    /\ context' = IF pc = "fix" THEN FixContext(fm) ELSE BuildContext(fm, iteration)
    /\ UNCHANGED << fm, calls, last, config, model_replies, test_outcomes, file_agents,
                    test_executor, iteration, agent_index, dev_index,
                    iteration_completion_count, completion_signals,
                    all_operations, test_results, result, test_runs,
                    fix_rounds, quorum_stop >>

\* a test stage that also runs in the first iteration
TestStageRunsFromFirst(te, i) == te # None

\* if test_executor and iteration > 0
TestStageRuns(te, i) == te # None /\ i > 0

\* no test stage: testing is off, or this is the first iteration
SkipTests ==
    /\ pc = "tests"
    /\ ~TestStageRuns(test_executor, iteration)
    /\ pc' = "check"
    /\ UNCHANGED << fm, calls, last, config, model_replies, test_outcomes, context, exception, file_agents,
                    test_executor, iteration, agent_index, dev_index,
                    iteration_completion_count, completion_signals,
                    all_operations, test_results, result, test_runs,
                    fix_rounds, quorum_stop >>

\* a run_tests call has returned r: the report becomes test_results, and
\* the workflow goes on to the stage to
Tested(r, to) ==
    /\ test_executor' = [ test_history |-> r.test_history ]
    /\ test_results' = r.report
    /\ pc' = to
    /\ fix_rounds' = IF to = "fix" THEN fix_rounds + 1 ELSE fix_rounds
    /\ test_runs' = test_runs + 1

TestedIn(phase, r) ==
    Tested(r, AfterTests(phase, r.report, iteration, config.max_iterations,
                         developer_agents))

\* the test run after the agents' turns
RunTests ==
    /\ pc = "tests"
    /\ TestStageRuns(test_executor, iteration)
    /\ \E env \in Envs, outcome \in test_outcomes :
          TestedIn("tests",
                   run_tests(test_executor, fm, config.test_command, env, outcome))
    /\ dev_index' = 1
    /\ UNCHANGED << fm, calls, last, config, model_replies, test_outcomes, context, exception, file_agents,
                    iteration, agent_index, iteration_completion_count,
                    completion_signals, all_operations, result, quorum_stop >>

\* the developer's reply has been parsed and applied (r): the operations are
\* recorded with type "test_fix"
Fixed(dev_agent, r) ==
    /\ fm' = r.fm
    /\ all_operations' =
           Append(all_operations,
                  [ iteration |-> iteration + 1, agent |-> dev_agent.name,
                    type |-> "test_fix", operations |-> r.operations ])

\* one developer's turn of the fix round
FixTurn ==
    /\ pc = "fix"
    /\ \E response \in model_replies :
          Fixed(developer_agents[dev_index],
                process_and_execute_file_operations(
                    fm, developer_agents[dev_index].name, response))
    /\ context' = FixContext(fm)
    /\ dev_index' = IF dev_index < Len(developer_agents) THEN dev_index + 1 ELSE 1
    /\ pc' = IF dev_index < Len(developer_agents) THEN "fix" ELSE "retest"
    /\ UNCHANGED << calls, last, config, model_replies, test_outcomes, exception, file_agents,
                    test_executor, iteration, agent_index,
                    iteration_completion_count, completion_signals,
                    test_results, result, test_runs, fix_rounds, quorum_stop >>

\* the test run after the fix round
ReTest ==
    /\ pc = "retest"
    /\ \E env \in Envs, outcome \in test_outcomes :
          TestedIn("retest",
                   run_tests(test_executor, fm, config.test_command, env, outcome))
    /\ UNCHANGED << fm, calls, last, config, model_replies, test_outcomes, context, exception, file_agents,
                    iteration, agent_index, dev_index,
                    iteration_completion_count, completion_signals,
                    all_operations, result, quorum_stop >>

\* a count that is carried over from one iteration to the next
VotesCarriedOver(count) == count

\* iteration_completion_count = 0, at the top of every iteration
VotesAtIterationStart(count) == 0

\* the end of the iteration: past the gate the share of this iteration's
\* votes is computed (ZeroDivisionError when there are no agents) and a
\* quorum leaves the loop; otherwise the next iteration begins, or the loop
\* ends because range(max_iterations) is exhausted
CompletionCheck ==
    /\ pc = "check"
    /\ LET gate == GatePassed(config.stop_on_complete, iteration,
                              config.min_iterations)
           crash == gate /\ Len(file_agents) = 0
           stop == /\ gate
                   /\ ~crash
                   /\ QuorumReached(iteration_completion_count, Len(file_agents))
           to == IF crash THEN "aborted"
                 ELSE IF stop THEN "finish"
                 ELSE IterationStart(iteration + 1, Len(file_agents))
           again == to \in { "turn", "tests" }
       IN  /\ pc' = to
           /\ exception' = IF crash THEN ZeroDivisionError ELSE None
           /\ quorum_stop' = stop
           /\ iteration' = IF again THEN iteration + 1 ELSE iteration
           /\ iteration_completion_count' =
                  IF again THEN VotesAtIterationStart(iteration_completion_count)
                  ELSE iteration_completion_count
           /\ test_runs' = IF again THEN 0 ELSE test_runs
           /\ fix_rounds' = IF again THEN 0 ELSE fix_rounds
    /\ UNCHANGED << fm, calls, last, config, model_replies, test_outcomes, context, file_agents,
                    test_executor, agent_index, dev_index, completion_signals,
                    all_operations, test_results, result >>

\* the returned dictionary
RunResult ==
    [ files              |-> list_files(fm),
      operations         |-> all_operations,
      completion_signals |-> completion_signals,
      stopped_early      |-> Len(completion_signals) > 0 /\ config.stop_on_complete,
      test_history       |-> IF test_executor # None
                             THEN test_executor.test_history ELSE << >>,
      final_test_results |-> IF test_executor # None THEN test_results ELSE None ]

Finish ==
    /\ pc = "finish"
    /\ result' = RunResult
    /\ pc' = "done"
    /\ UNCHANGED << fm, calls, last, config, model_replies, test_outcomes, context, exception, file_agents,
                    test_executor, iteration, agent_index, dev_index,
                    iteration_completion_count, completion_signals,
                    all_operations, test_results, test_runs, fix_rounds,
                    quorum_stop >>

(***************************************************************************)
(* Runs of the workflow with one or two agents.                            *)
(***************************************************************************)
MaxIter == 3
MaxTurns == 4

Rosters ==
    { << [ type |-> "backend_developer", name |-> "Bob" ] >>,
      << [ type |-> "qa_tester", name |-> "Quinn" ] >>,
      << [ type |-> "backend_developer", name |-> "Bob" ],
         [ type |-> "qa_tester", name |-> "Quinn" ] >>,
      << [ type |-> "wizard", name |-> "Merlin" ] >> }

WorkflowReplies ==
    { "I reviewed the code and have nothing to add.",
      "Project is complete.",
      FENCE \o "filename: test_a.py\nX\n" \o FENCE }

Configs ==
    { c \in [ agents           : Rosters,
              max_iterations   : 1..MaxIter,
              stop_on_complete : BOOLEAN,
              min_iterations   : 1..MaxIter,
              enable_testing   : BOOLEAN,
              test_command     : { NoCommand, "pytest" } ] :
        /\ Len(c.agents) * c.max_iterations <= MaxTurns
        \* min_iterations is read only when auto-stop is on, test_command
        \* only when testing is on
        /\ c.stop_on_complete \/ c.min_iterations = DEFAULT_MIN_ITERATIONS
        /\ c.enable_testing \/ c.test_command = NoCommand }

Init ==
    /\ fm = NewFileManager
    /\ calls = 0
    /\ last = NoCall
    /\ \E cfg \in Configs : WorkflowStart(cfg, WorkflowReplies, Outcomes)

Next ==
    \/ Setup
    \/ AgentTurn
    \/ GenerationFails
    \/ SkipTests
    \/ RunTests
    \/ FixTurn
    \/ ReTest
    \/ CompletionCheck
    \/ Finish

Spec == Init /\ [][Next]_vars

(***************************************************************************)
(* Runs of the workflow with rosters of up to five agents, testing off:    *)
(* each agent either votes for completion or does not.                     *)
(***************************************************************************)
MaxQuorumIter == 2

QuorumRosters ==
    { << >>,
      << [ type |-> "ceo", name |-> "Ann" ] >>,
      << [ type |-> "ceo", name |-> "Ann" ],
         [ type |-> "backend_developer", name |-> "Bob" ] >>,
      << [ type |-> "ceo", name |-> "Ann" ],
         [ type |-> "backend_developer", name |-> "Bob" ],
         [ type |-> "frontend_developer", name |-> "Cy" ],
         [ type |-> "qa_tester", name |-> "Quinn" ],
         [ type |-> "tech_writer", name |-> "Tess" ] >> }

QuorumReplies ==
    { "Not yet.", "Project is complete." }

QuorumConfigs ==
    [ agents           : QuorumRosters,
      max_iterations   : 1..MaxQuorumIter,
      stop_on_complete : BOOLEAN,
      min_iterations   : 1..MaxQuorumIter,
      enable_testing   : { FALSE },
      test_command     : { NoCommand } ]

InitQuorum ==
    /\ fm = NewFileManager
    /\ calls = 0
    /\ last = NoCall
    /\ \E cfg \in QuorumConfigs : WorkflowStart(cfg, QuorumReplies, { })

NextQuorum ==
    \/ Setup
    \/ AgentTurn
    \/ GenerationFails
    \/ SkipTests
    \/ CompletionCheck
    \/ Finish

SpecQuorum == InitQuorum /\ [][NextQuorum]_vars

(***************************************************************************)
(* FileManager used directly: any sequence of create_file, update_file and *)
(* list_files calls.                                                       *)
(***************************************************************************)
MaxCalls == 3

SamplePaths ==
    { "a.py", ".DS_Store", ".git/config", "node_modules/x.js",
      "../../etc/passwd", "/etc/passwd" }

SampleContents == { "X", "Y" }

CallCreateFile(file_path, content) ==
    /\ calls < MaxCalls
    /\ LET r == create_file(fm, file_path, content, "client")
       IN  /\ fm' = r.fm
           /\ last' = [NoCall EXCEPT !.op = "create_file", !.file_path = file_path,
                                     !.content = content, !.ok = r.ok, !.before = fm]
    /\ calls' = calls + 1
    /\ UNCHANGED workflow_vars

CallUpdateFile(file_path, content) ==
    /\ calls < MaxCalls
    /\ LET r == update_file(fm, file_path, content, "client")
       IN  /\ fm' = r.fm
           /\ last' = [NoCall EXCEPT !.op = "update_file", !.file_path = file_path,
                                     !.content = content, !.ok = r.ok, !.before = fm]
    /\ calls' = calls + 1
    /\ UNCHANGED workflow_vars

CallListFiles ==
    /\ calls < MaxCalls
    /\ last.op # "list_files"
    /\ last' = [NoCall EXCEPT !.op = "list_files", !.listing = list_files(fm),
                              !.before = fm]
    /\ UNCHANGED << fm, calls, workflow_vars >>

InitFiles ==
    /\ fm = NewFileManager
    /\ calls = 0
    /\ last = NoCall
    /\ WorkflowStart(DefaultConfig, { }, { })

NextFiles ==
    \/ \E file_path \in SamplePaths, content \in SampleContents :
          CallCreateFile(file_path, content)
    \/ \E file_path \in SamplePaths, content \in SampleContents :
          CallUpdateFile(file_path, content)
    \/ CallListFiles

SpecFiles == InitFiles /\ [][NextFiles]_vars


(***************************************************************************)
(* FileAwareAgent used directly: one reply is parsed and applied           *)
(* (process_and_execute_file_operations) or classified                     *)
(* (_is_completion_signal).  A reply is either written block by block in   *)
(* the format the system message teaches, or one of a few other texts.     *)
(***************************************************************************)
MaxReplies == 1
LongBodyLen == 60

RECURSIVE Repeat(_, _)
Repeat(c, n) == IF n = 0 THEN "" ELSE c \o Repeat(c, n - 1)

BlockMarkers == { "filename", "update", "read" }
BlockPaths == { "a.py", "b.py" }
BlockBodies == { "X", Repeat("y", LongBodyLen) }

SampleBlocks ==
    [ marker : BlockMarkers, path : BlockPaths, body : BlockBodies ]

\* a block as the system message shows it: fence, marker, path, the content
\* on lines of its own, fence
RenderBlock(b) ==
    FENCE \o b.marker \o ": " \o b.path \o "\n" \o b.body \o "\n" \o FENCE

RenderBlocks(bs) ==
    LET F[n \in 0..Len(bs)] ==
            IF n = 0 THEN ""
            ELSE IF n = 1 THEN RenderBlock(bs[1])
            ELSE F[n - 1] \o "\n" \o RenderBlock(bs[n])
    IN  F[Len(bs)]

BlockLists ==
    { << b >> : b \in SampleBlocks } \cup
    { << b1, b2 >> : b1 \in SampleBlocks, b2 \in SampleBlocks }

OtherReplies ==
    { "I reviewed the code and have nothing to add.",
      FENCE \o "filename: " \o BT \o "../../etc/passwd" \o BT \o "\nroot\n" \o FENCE,
      FENCE \o "create: a.py\nX\n" \o FENCE \o "\n" \o FENCE \o "update: b.py\nY\n" \o FENCE,
      FENCE \o "read: a.py" \o FENCE,
      FENCE \o "read: a.py\n" \o FENCE,
      FENCE \o "filename: a.py\nX",
      FENCE \o "update: ;;;\nX\n" \o FENCE,
      FENCE \o "filename:\nprint(1)\n" \o FENCE,
      "No more changes needed.",
      "There are no more bugs.",
      "Nothing is complete yet." }

\* every phrase of the vocabulary as written, in upper case, and inside a
\* sentence
PhraseReplies ==
    UNION { { completion_keywords[k],
              Upper(completion_keywords[k]),
              "I think the " \o completion_keywords[k] \o " now." } :
            k \in 1..Len(completion_keywords) }

CallProcess(response, blocks) ==
    /\ calls < MaxReplies
    /\ LET r == process_and_execute_file_operations(fm, "agent", response)
       IN  /\ fm' = r.fm
           /\ last' = [NoCall EXCEPT !.op = "process", !.response = response,
                                     !.blocks = blocks,
                                     !.file_blocks = extract_file_blocks(response),
                                     !.operations = r.operations, !.before = fm]
    /\ calls' = calls + 1
    /\ UNCHANGED workflow_vars

CallIsCompletionSignal(response) ==
    /\ calls < MaxReplies
    /\ last' = [NoCall EXCEPT !.op = "signal", !.response = response,
                              !.signal = is_completion_signal(response),
                              !.before = fm]
    /\ calls' = calls + 1
    /\ UNCHANGED << fm, workflow_vars >>

\* the workspace is new, or an earlier turn has created a.py
InitAgent ==
    /\ fm \in { NewFileManager,
                create_file(NewFileManager, "a.py", "OLD", "agent").fm }
    /\ calls = 0
    /\ last = NoCall
    /\ WorkflowStart(DefaultConfig, { }, { })

NextAgent ==
    \/ \E bs \in BlockLists : CallProcess(RenderBlocks(bs), bs)
    \/ \E response \in OtherReplies : CallProcess(response, << >>)
    \/ \E response \in OtherReplies \cup PhraseReplies :
          CallIsCompletionSignal(response)

SpecAgent == InitAgent /\ [][NextAgent]_vars


(***************************************************************************)
(* Claims about create_project_workflow, checked under SpecQuorum and      *)
(* Spec.                                                                   *)
(***************************************************************************)
\* the completion votes recorded in iteration number k (counted from 1)
VotesIn(k) ==
    Cardinality({ n \in 1..Len(completion_signals) :
                     completion_signals[n].iteration = k })

\* the agents' turns (fix turns aside) recorded in iteration number k
TurnsIn(k) ==
    Cardinality({ n \in 1..Len(all_operations) :
                     /\ all_operations[n].iteration = k
                     /\ "type" \notin DOMAIN all_operations[n] })

\* votesThisRound / rosterSize >= 0.70
SeventyPercent(k) == 10 * VotesIn(k) >= 7 * Len(file_agents)

\* the completion check of an iteration past the gate, with a roster that
\* has a size to divide by
AtGatedCheck ==
    /\ pc = "check"
    /\ config.stop_on_complete
    /\ iteration >= config.min_iterations - 1
    /\ Len(file_agents) > 0

C2_NoQuorumStopBeforeGate ==
    quorum_stop =>
        /\ iteration + 1 >= config.min_iterations
        /\ \A k \in 1..config.min_iterations : TurnsIn(k) = Len(file_agents)

\* C2 witness: min_iterations = 2, every agent voted for completion in
\* iteration 1, and iteration 2 has run in full
C2_FullVoteBelowGate ==
    /\ config.min_iterations = 2
    /\ Len(file_agents) > 0
    /\ VotesIn(1) = Len(file_agents)
    /\ iteration = 1
    /\ pc = "check"
    /\ TurnsIn(2) = Len(file_agents)
    /\ ~quorum_stop

\* C3: in one iteration run_tests is called at most twice and at most one fix
\* round begins; at the end of the iteration's test stage it has been called
\* exactly once more than fix rounds ran, so a failing re-test starts neither
\* a fix round nor a test run.
C3_AtMostOneRetest ==
    /\ test_runs <= 2
    /\ fix_rounds <= 1
    /\ pc = "retest" => (test_runs = 1 /\ fix_rounds = 1)
    /\ (pc = "check" /\ test_runs > 0) => test_runs = fix_rounds + 1
    /\ (pc = "check" /\ test_runs = 0) => fix_rounds = 0

\* C3 witness: the iteration's test stage is over after a fix round whose
\* re-test still fails
C3_RetestStillFails ==
    /\ pc = "check"
    /\ fix_rounds = 1
    /\ test_runs = 2
    /\ ~test_results.success

\* C4: the stopped_early field of the returned dictionary is true if and
\* only if a completion vote was recorded and the loop was left through the
\* quorum stop.
C4_StoppedEarlyIffQuorumStop ==
    pc = "done" =>
        (result.stopped_early <=> (Len(completion_signals) > 0 /\ quorum_stop))


(***************************************************************************)
(* Claims about FileManager, checked under SpecFiles.                      *)
(***************************************************************************)
LastFull == FullPath(last.file_path)

\* a candidate path that holds a "../" segment, is absolute, or resolves to
\* a place that is not inside the project directory
Escapes(file_path) ==
    \/ Contains(file_path, "../")
    \/ StartsWith(file_path, "/")
    \/ ~InsideRoot(FullPath(file_path))

\* C5: create_file and update_file fail for every path that holds "../", is
\* absolute or resolves outside the workspace root, and no file ever exists
\* outside the workspace root.
C5_TraversalRejected ==
    /\ (last.op \in {"create_file", "update_file"} /\ Escapes(last.file_path))
           => ~last.ok
    /\ \A f \in DOMAIN fm.files : InsideRoot(f)

\* the system-junk filter on a relative path: should_ignore_file on the file
\* name, or a directory of SYSTEM_IGNORE_DIRS on the way to it
SystemJunk(rel) ==
    LET segs == Split(rel)
    IN  \/ should_ignore_file(segs)
        \/ \E i \in 1..(Len(segs) - 1) : segs[i] \in SYSTEM_IGNORE_DIRS

\* C8: whatever create/update calls came before, list_files returns no path
\* that matches the system-junk filter (OS metadata files, files under
\* version-control directories or dependency caches, backup copies).
C8_ListingHasNoJunk ==
    last.op = "list_files" =>
        \A i \in 1..Len(last.listing) : ~SystemJunk(last.listing[i])

\* the call is update_file(p, c) on a file whose current content is c
SameContentUpdate ==
    /\ last.op = "update_file"
    /\ IsFile(last.before, LastFull)
    /\ last.before.files[LastFull] = last.content

\* C9: update_file(p, c) called when the file already holds c reports success
\* and changes nothing: not the file, not the change log, not the backup
\* copy, and it makes no new backup copy.
C9_IdempotentUpdate ==
    SameContentUpdate =>
        /\ last.ok
        /\ fm.files = last.before.files
        /\ fm.file_history = last.before.file_history
        /\ fm.dirs = last.before.dirs

\* C9 witness: the second of two update_file(p, c) calls in a row, the first
\* of which changed the file and left a backup copy
C9_SecondUpdateSeen ==
    /\ SameContentUpdate
    /\ IsFile(last.before, BackupPath(LastFull))
    /\ Len(last.before.file_history) > 0
    /\ LET prev == last.before.file_history[Len(last.before.file_history)]
       IN  prev.action = "update" /\ prev.file = last.file_path
    /\ IsFile(fm, BackupPath(LastFull))


(***************************************************************************)
(* Claims about FileAwareAgent, checked under SpecAgent.                   *)
(***************************************************************************)
PasswdReply ==
    FENCE \o "filename: " \o BT \o "../../etc/passwd" \o BT \o "\nroot\n" \o FENCE

SeqRange(q) == {q[i] : i \in 1..Len(q)}

\* C6: every path the response parser returns and the agent then applies
\* resolves inside the workspace root; the header path ../../etc/passwd in
\* backticks is applied as etc/passwd.
C6_AppliedPathsStayInside ==
    last.op = "process" =>
        /\ \A path \in SeqRange(last.operations.created)
                         \cup SeqRange(last.operations.updated) :
               InsideRoot(FullPath(path))
        /\ (last.response = PasswdReply =>
               last.operations.created = << "etc/passwd" >>)

\* the tag a header marker stands for
TagOf(marker) == IF marker = "filename" THEN "create" ELSE marker

\* no two blocks of the reply name the same path
DistinctPaths(bs) ==
    \A i, j \in 1..Len(bs) : bs[i].path = bs[j].path => i = j

\* C7: for a reply made of well-formed blocks for different paths the parser
\* returns one operation per block, in order, each with the tag of its own
\* header and with its own path and content, whatever blocks stand before or
\* after it.
C7_BlocksKeepOwnTag ==
    (last.op = "process" /\ last.blocks # << >> /\ DistinctPaths(last.blocks)) =>
        last.file_blocks =
            [ i \in 1..Len(last.blocks) |->
                << TagOf(last.blocks[i].marker), last.blocks[i].path,
                   last.blocks[i].body >> ]

\* the reply holds the phrase, letter case aside
HoldsPhrase(response, phrase) == Contains(Lower(response), Lower(phrase))

\* C10: a reply that holds any phrase of the completion vocabulary
\* (TASK_DONE included), in any letter case, is classified as a completion
\* signal.
C10_EveryPhraseSignals ==
    last.op = "signal" =>
        \A k \in 1..Len(completion_keywords) :
            HoldsPhrase(last.response, completion_keywords[k]) => last.signal


(***************************************************************************)
(* Failures.                                                               *)
(***************************************************************************)
GenerationFailed == exception # None /\ exception.type = "RuntimeError"

\* what the workflow has written, recorded and counted
Progress ==
    << fm, all_operations, completion_signals, iteration_completion_count,
       test_executor, test_results, iteration, result >>

\* C11: when generation fails in an agent's turn, of the iteration or of a
\* fix round, the run ends there with an error that names that agent: the
\* failed turn leaves no operation record, no file operation and no vote, no
\* result is returned, and no turn, test run or completion check follows
C11_GenerationFailureAborts ==
    /\ [](GenerationFailed => pc = "aborted" /\ result = None /\ ~ENABLED Next)
    /\ [][ GenerationFailed' /\ ~GenerationFailed
             => /\ pc \in { "turn", "fix" }
                /\ exception'.message =
                       "LLM invocation failed for " \o CurrentAgent(pc).name
                /\ UNCHANGED Progress ]_vars

\* generation failed in the fix turn of Bob in the second iteration, after
\* the turns of two iterations were recorded and a test run had failed
C11_FixTurnFails ==
    /\ GenerationFailed
    /\ exception.message = "LLM invocation failed for Bob"
    /\ iteration = 1 /\ fix_rounds = 1 /\ test_runs = 1
    /\ Len(all_operations) = 2
    /\ ~test_results.success

\* C12: whatever the configuration, a run that does not return a result
\* was ended by a failed generation and by nothing else
C12_OnlyGenerationFailureAborts ==
    pc = "aborted" => GenerationFailed

(***************************************************************************)
(* Runs of the workflow, testing off, in which file operations fail: the   *)
(* project directory cannot be created as a file, and a path below a       *)
(* missing directory cannot be updated.                                    *)
(***************************************************************************)
MaxWriteIter == 2

WriteRosters ==
    { << [ type |-> "backend_developer", name |-> "Bob" ] >>,
      << [ type |-> "backend_developer", name |-> "Bob" ],
         [ type |-> "qa_tester", name |-> "Quinn" ] >> }

CreateFailsThenCreate ==
    FENCE \o "filename: .\nX\n" \o FENCE \o "\n"
        \o FENCE \o "filename: c.py\nY\n" \o FENCE

UpdateFailsThenUpdate ==
    FENCE \o "update: d/e.py\nZ\n" \o FENCE \o "\n"
        \o FENCE \o "update: f.py\nW\n" \o FENCE

WriteReplies ==
    { "Project is complete.", CreateFailsThenCreate, UpdateFailsThenUpdate }

WriteConfigs ==
    [ agents           : WriteRosters,
      max_iterations   : 1..MaxWriteIter,
      stop_on_complete : BOOLEAN,
      min_iterations   : { DEFAULT_MIN_ITERATIONS },
      enable_testing   : { FALSE },
      test_command     : { NoCommand } ]

InitWrites ==
    /\ fm = NewFileManager
    /\ calls = 0
    /\ last = NoCall
    /\ \E cfg \in WriteConfigs : WorkflowStart(cfg, WriteReplies, { })

NextWrites ==
    \/ Setup
    \/ AgentTurn
    \/ GenerationFails
    \/ SkipTests
    \/ CompletionCheck
    \/ Finish

SpecWrites == InitWrites /\ [][NextWrites]_vars

\* the operation record lists every block of the reply once, in created,
\* updated, read or errors; a create or update that is not among the errors
\* has left its content in the file
EveryBlockApplied(file_blocks, operations, after) ==
    /\ Len(operations.created) + Len(operations.updated) + Len(operations.read)
          + Len(operations.errors) = Len(file_blocks)
    /\ \A n \in 1..Len(file_blocks) :
          LET operation == file_blocks[n][1]
              file_path == file_blocks[n][2]
          IN  /\ operation = "create" =>
                    \/ \E e \in 1..Len(operations.errors) :
                          operations.errors[e] = "Failed to create " \o file_path
                    \/ /\ \E c \in 1..Len(operations.created) :
                             operations.created[c] = file_path
                       /\ IsFile(after, FullPath(file_path))
              /\ operation = "update" =>
                    \/ \E e \in 1..Len(operations.errors) :
                          operations.errors[e] = "Failed to update " \o file_path
                    \/ /\ \E u \in 1..Len(operations.updated) :
                             operations.updated[u] = file_path
                       /\ IsFile(after, FullPath(file_path))

\* C13: a create or update that fails does not end the turn or the run: the
\* turn's record, under the agent's name and the iteration's number, holds
\* the error and every other operation of the reply, applied; and the turn
\* is followed by the next agent's turn, or by the test stage after the last
C13_FailedWriteIsRecorded ==
    [][ pc = "turn" /\ pc' # "aborted"
          => /\ Len(all_operations') = Len(all_operations) + 1
             /\ exception' = None
             /\ pc' = IF agent_index < Len(file_agents) THEN "turn" ELSE "tests"
             /\ agent_index' = (agent_index % Len(file_agents)) + 1
             /\ LET record == all_operations'[Len(all_operations')]
                IN  /\ record.agent = file_agents[agent_index].name
                    /\ record.iteration = iteration + 1
                    /\ \E response \in model_replies :
                          EveryBlockApplied(extract_file_blocks(response),
                                            record.operations, fm') ]_vars

\* Bob's turn failed to create "." and created c.py, and Quinn took her
\* turn after it: her update of d/e.py failed and her update of f.py wrote it
C13_ErrorThenNextAgent ==
    /\ Len(all_operations) = 2
    /\ all_operations[1].agent = "Bob"
    /\ all_operations[1].operations.errors = << "Failed to create ." >>
    /\ all_operations[1].operations.created = << "c.py" >>
    /\ all_operations[2].agent = "Quinn"
    /\ all_operations[2].operations.errors = << "Failed to update d/e.py" >>
    /\ all_operations[2].operations.updated = << "f.py" >>
    /\ IsFile(fm, FullPath("c.py")) /\ IsFile(fm, FullPath("f.py"))

(***************************************************************************)
(* Runs of the workflow, testing on, in which the test command also times  *)
(* out or cannot be started.                                               *)
(***************************************************************************)
MaxTimeoutIter == 3

TimeoutRosters ==
    { << [ type |-> "backend_developer", name |-> "Bob" ] >>,
      << [ type |-> "qa_tester", name |-> "Quinn" ] >> }

\* subprocess.run raises TimeoutExpired, or another exception (the
\* executable is missing)
TimedOut == [ kind |-> "timeout", returncode |-> 0, stdout |-> "", stderr |-> "" ]
NotStarted ==
    [ kind |-> "error", returncode |-> 0, stdout |-> "",
      stderr |-> "[Errno 2] No such file or directory: 'pytest'" ]

TimeoutOutcomes == Outcomes \cup { TimedOut, NotStarted }

TimeoutReplies ==
    { "I reviewed the code and have nothing to add.",
      FENCE \o "filename: test_a.py\nX\n" \o FENCE }

TimeoutConfigs ==
    [ agents           : TimeoutRosters,
      max_iterations   : 2..MaxTimeoutIter,
      stop_on_complete : { FALSE },
      min_iterations   : { DEFAULT_MIN_ITERATIONS },
      enable_testing   : { TRUE },
      test_command     : { "pytest" } ]

InitTimeouts ==
    /\ fm = NewFileManager
    /\ calls = 0
    /\ last = NoCall
    /\ \E cfg \in TimeoutConfigs :
          WorkflowStart(cfg, TimeoutReplies, TimeoutOutcomes)

SpecTimeouts == InitTimeouts /\ [][Next]_vars

\* the report of a test run that timed out or could not be started
IsErrorReport(report) ==
    /\ "error" \in DOMAIN report
    /\ \/ report.error = "Tests timed out after 5 minutes"
       \/ StartsWith(report.error, "Failed to run tests: ")

\* the stages a failing test run can be followed by, from where the workflow
\* stands: those that follow a test command that exits with failing tests
AfterFailingRun ==
    { AfterTests(pc, ReportOf(config.test_command, o), iteration,
                 config.max_iterations, developer_agents) :
        o \in { x \in Outcomes : x.returncode # 0 } }

\* C14: a test run that times out or cannot be started raises nothing: it
\* gives a report with success false and the error's description, which is
\* recorded in the test history, and the workflow goes on to the stage that
\* follows a test run with failing tests
C14_TestErrorsAreFailingReports ==
    [][ test_runs' = test_runs + 1 /\ pc \in { "tests", "retest" }
          => /\ exception' = None
             /\ pc' # "aborted"
             /\ (IsErrorReport(test_results') =>
                   (/\ ~test_results'.success
                    /\ test_results'.errors # << >>
                    /\ test_executor'.test_history =
                           Append(test_executor.test_history, test_results')
                    /\ pc' \in AfterFailingRun)) ]_vars

\* the test run of the second iteration timed out and Bob's fix round has
\* begun
C14_TimeoutStartsFixRound ==
    /\ test_results # None
    /\ IsErrorReport(test_results)
    /\ test_results.error = "Tests timed out after 5 minutes"
    /\ ~test_results.success
    /\ pc = "fix" /\ iteration = 1
    /\ developer_agents[dev_index].name = "Bob"

(***************************************************************************)
(* SecurityScanner._is_python_project (security_scanner.py): a *.py file   *)
(* anywhere below the project path that should_ignore_file does not reject *)
(***************************************************************************)
is_python_project(files) ==
    \E f \in DOMAIN files :
        InsideRoot(f) /\ EndsWith(Name(f), ".py") /\ ~should_ignore_file(f)

(***************************************************************************)
(* A client of TestExecutor, SecurityScanner and FileManager on one        *)
(* project directory: files appear, and the client asks for the test       *)
(* command, runs the tests, asks for the project type and lists the files. *)
(***************************************************************************)
MaxTestCalls == 3

TestPaths == { "main.py", "test_main.py", ".DS_Store", "._foo_test.py" }

TestCommands == { NoCommand, "pytest" }

TestEnvs == [ has_pytest : BOOLEAN, npm_test_script : { FALSE } ]

\* the child process exits with status 2 and prints no summary line
Unparseable ==
    [ kind |-> "exit", returncode |-> 2, stdout |-> "collected 0 items",
      stderr |-> "ERROR: file or directory not found: tests" ]

\* the child process exits with a status and a summary line, or times out
TestOutcomes ==
    [ kind : { "exit" }, returncode : { 0, 1 },
      stdout : { "1 passed in 0.01s", "1 failed, 1 passed in 0.02s" },
      stderr : { "" } ]
    \cup { TimedOut }

CallDetectTestFramework(env) ==
    /\ last.op # "detect_test_framework"
    /\ last' = [ op |-> "detect_test_framework", env |-> env,
                 test_command |-> detect_test_framework(fm, env), before |-> fm ]
    /\ UNCHANGED << fm, calls, workflow_vars >>

\* run_tests has returned r
Ran(custom_command, env, outcome, r) ==
    /\ last' = [ op |-> "run_tests", custom_command |-> custom_command,
                 env |-> env, outcome |-> outcome, report |-> r.report,
                 before |-> fm ]
    /\ test_executor' = [ test_history |-> r.test_history ]

CallRunTests ==
    /\ calls < MaxTestCalls
    /\ \E custom_command \in TestCommands, env \in TestEnvs, outcome \in test_outcomes :
          Ran(custom_command, env, outcome,
              run_tests(test_executor, fm, custom_command, env, outcome))
    /\ calls' = calls + 1
    /\ UNCHANGED << fm, config, model_replies, test_outcomes, context, exception, pc,
                    file_agents, iteration, agent_index, dev_index,
                    iteration_completion_count, completion_signals,
                    all_operations, test_results, result, test_runs,
                    fix_rounds, quorum_stop >>

CallIsPythonProject ==
    /\ last.op # "is_python_project"
    /\ last' = [ op |-> "is_python_project",
                 python |-> is_python_project(fm.files), before |-> fm ]
    /\ UNCHANGED << fm, calls, workflow_vars >>

\* a new project directory and a new test executor; outcomes is what the
\* test process may do
TestsStart(outcomes) ==
    /\ fm = NewFileManager
    /\ calls = 0
    /\ last = NoCall
    /\ config = DefaultConfig
    /\ model_replies = { }
    /\ test_outcomes = outcomes
    /\ exception = None
    /\ context = None
    /\ pc = "start"
    /\ file_agents = << >>
    /\ test_executor = NewTestExecutor
    /\ iteration = 0
    /\ agent_index = 1
    /\ dev_index = 1
    /\ iteration_completion_count = 0
    /\ completion_signals = << >>
    /\ all_operations = << >>
    /\ test_results = None
    /\ result = None
    /\ test_runs = 0
    /\ fix_rounds = 0
    /\ quorum_stop = FALSE

InitTests == TestsStart(TestOutcomes)

NextTests ==
    \/ \E file_path \in TestPaths : CallCreateFile(file_path, "X")
    \/ \E env \in TestEnvs : CallDetectTestFramework(env)
    \/ CallRunTests
    \/ CallIsPythonProject
    \/ CallListFiles

SpecTests == InitTests /\ [][NextTests]_vars

\* C15: a report that counts a failed test never says success
C15_FailedMeansNoSuccess ==
    last.op = "run_tests" /\ last.report.failed > 0 => ~last.report.success

\* the report of run_tests when there is no test command to run
IsNoCommandReport(report) ==
    /\ report # None
    /\ "error" \in DOMAIN report
    /\ report.framework = NoCommand

\* C16: when no test command is detected and none is given, the test stage
\* does nothing: no fix round begins, no developer takes a fix turn and no
\* second run_tests call is made
C16_NoCommandIsNoOp ==
    IsNoCommandReport(test_results)
        => pc \notin { "fix", "retest" } /\ fix_rounds = 0 /\ test_runs <= 1

\* the project directory without its system junk files
WithoutJunk(f) ==
    [f EXCEPT !.files = [g \in { h \in DOMAIN f.files : ~should_ignore_file(h) }
                            |-> f.files[g]]]

\* C17: the file listing, the detected test command and the scanner's
\* project type are what they would be without the junk files of the
\* project directory
C17_JunkChangesNothing ==
    /\ last.op = "list_files" =>
           last.listing = list_files(WithoutJunk(last.before))
    /\ last.op = "detect_test_framework" =>
           last.test_command =
               detect_test_framework(WithoutJunk(last.before), last.env)
    /\ last.op = "is_python_project" =>
           last.python = is_python_project(WithoutJunk(last.before).files)

(***************************************************************************)
(* Runs of the workflow in which every call of the language model and of   *)
(* the test command returns; the roster may be empty.                      *)
(***************************************************************************)
MaxReturnIter == 3

ReturnRosters ==
    { << >>,
      << [ type |-> "backend_developer", name |-> "Bob" ] >>,
      << [ type |-> "backend_developer", name |-> "Bob" ],
         [ type |-> "qa_tester", name |-> "Quinn" ] >> }

ReturnConfigs ==
    [ agents           : ReturnRosters,
      max_iterations   : 1..MaxReturnIter,
      stop_on_complete : BOOLEAN,
      min_iterations   : { 1, DEFAULT_MIN_ITERATIONS },
      enable_testing   : { TRUE },
      test_command     : { "pytest" } ]

InitReturns ==
    /\ fm = NewFileManager
    /\ calls = 0
    /\ last = NoCall
    /\ \E cfg \in ReturnConfigs : WorkflowStart(cfg, QuorumReplies, Outcomes)

NextReturns ==
    \/ Setup
    \/ AgentTurn
    \/ SkipTests
    \/ RunTests
    \/ FixTurn
    \/ ReTest
    \/ CompletionCheck
    \/ Finish

SpecReturns == InitReturns /\ [][NextReturns]_vars

\* the fix turns recorded in iteration number k
FixTurnsIn(k) ==
    Cardinality({ n \in 1..Len(all_operations) :
                     /\ all_operations[n].iteration = k
                     /\ "type" \in DOMAIN all_operations[n] })

\* no more than max_iterations iterations, each of no more than one turn per
\* agent, one fix round (a fix turn per developer) and two test runs
C18_IterationsAreBounded ==
    /\ iteration < config.max_iterations \/ iteration = 0
    /\ \A k \in 1..(iteration + 1) :
          /\ TurnsIn(k) <= Len(config.agents)
          /\ FixTurnsIn(k) <= Len(developer_agents)
    /\ \A n \in 1..Len(all_operations) : all_operations[n].iteration <= iteration + 1
    /\ fix_rounds <= 1
    /\ test_runs <= 2

\* C18: when every call returns, the loop stays within its bounds and the
\* workflow goes on, step after step, until it is done: it stops nowhere else
C18_LoopEndsInDone ==
    /\ C18_IterationsAreBounded
    /\ pc = "done" \/ ENABLED NextReturns

\* C19: with auto-stop off no completion vote is counted or recorded and the
\* loop is not left through its break; a run that returns has taken every
\* agent's turn in each of its max_iterations iterations and reports
\* stopped_early false
C19_NoAutoStopRunsAllIterations ==
    ~config.stop_on_complete =>
        /\ completion_signals = << >>
        /\ iteration_completion_count = 0
        /\ ~quorum_stop
        /\ pc \in { "finish", "done" } =>
              /\ iteration = config.max_iterations - 1
              /\ \A k \in 1..config.max_iterations : TurnsIn(k) = Len(file_agents)
        /\ pc = "done" =>
              /\ ~result.stopped_early
              /\ result.completion_signals = << >>

\* a run of three iterations with auto-stop off has returned
C19_ThreeIterationsDone ==
    /\ ~config.stop_on_complete
    /\ config.max_iterations = 3
    /\ pc = "done"
    /\ Len(file_agents) = 1
    /\ Len(all_operations) >= 3
    /\ ~result.stopped_early

(***************************************************************************)
(* The runs of one configuration: Dev and QA, three iterations at most,    *)
(* two at least, auto-stop and testing on.                                 *)
(***************************************************************************)
ScenarioConfig ==
    [ agents           |-> << [ type |-> "backend_developer", name |-> "Dev" ],
                              [ type |-> "qa_tester", name |-> "QA" ] >>,
      max_iterations   |-> 3,
      stop_on_complete |-> TRUE,
      min_iterations   |-> 2,
      enable_testing   |-> TRUE,
      test_command     |-> "pytest" ]

ScenarioReplies ==
    { FENCE \o "filename: test_a.py\nX\n" \o FENCE,
      FENCE \o "update: test_a.py\nY\n" \o FENCE,
      "The project is complete." }

ScenarioOutcomes ==
    { [ kind |-> "exit", returncode |-> 1,
        stdout |-> "2 failed, 1 passed in 0.03s", stderr |-> "" ],
      [ kind |-> "exit", returncode |-> 0,
        stdout |-> "3 passed in 0.03s", stderr |-> "" ] }

InitScenario ==
    /\ fm = NewFileManager
    /\ calls = 0
    /\ last = NoCall
    /\ WorkflowStart(ScenarioConfig, ScenarioReplies, ScenarioOutcomes)

SpecScenario == InitScenario /\ [][Next]_vars

\* the records of the fix turns of iteration number k
FixRecordsIn(k) ==
    SelectSeq(all_operations,
              LAMBDA record : record.iteration = k /\ "type" \in DOMAIN record)

MaxFixIter == 4

FixRosters ==
    { << [ type |-> "lead_developer", name |-> "Lee" ],
         [ type |-> "qa_tester", name |-> "Quinn" ],
         [ type |-> "backend_developer", name |-> "Bob" ] >>,
      << [ type |-> "qa_tester", name |-> "Quinn" ],
         [ type |-> "devops", name |-> "Dora" ] >> }

FixConfigs ==
    [ agents           : FixRosters,
      max_iterations   : 2..MaxFixIter,
      stop_on_complete : { FALSE },
      min_iterations   : { DEFAULT_MIN_ITERATIONS },
      enable_testing   : { TRUE },
      test_command     : { "pytest" } ]

\* every reply updates the same file
FixReplies == { FENCE \o "update: a.py\nX\n" \o FENCE }

InitFix ==
    /\ fm = NewFileManager
    /\ calls = 0
    /\ last = NoCall
    /\ \E cfg \in FixConfigs : WorkflowStart(cfg, FixReplies, Outcomes)

SpecFix == InitFix /\ [][Next]_vars

\* the agent types whose role is a developer's
DeveloperTypes == { "lead_developer", "backend_developer", "frontend_developer" }

\* the names of the roster's developers, in roster order
DeveloperNames ==
    LET devs == SelectSeq(config.agents, LAMBDA a : a.type \in DeveloperTypes)
    IN  [ n \in 1..Len(devs) |-> devs[n].name ]

\* the agents of the fix turns recorded in iteration number k, in order
FixAgentsIn(k) ==
    [ n \in 1..Len(FixRecordsIn(k)) |-> FixRecordsIn(k)[n].agent ]

\* the first report of the test runs of the current iteration
FirstReport ==
    test_executor.test_history[Len(test_executor.test_history) - test_runs + 1]

\* a fix round is due in the current iteration: it is not the first and not
\* the last of max_iterations, and its first test report is failing
FixRoundDue ==
    /\ iteration >= 1
    /\ iteration + 1 < config.max_iterations
    /\ test_runs >= 1
    /\ ~FirstReport.success

\* C22: when an iteration reaches its completion check, the fix turns
\* recorded in it are one for each developer of the roster, in roster order,
\* if the iteration is not the first, not the last and its first test report
\* is failing, and none otherwise; a fix turn is taken only then, by a
\* developer, and is recorded in an entry of its own with type test_fix
C22_FixTurnsForDevelopersOnly ==
    /\ [](pc = "check" =>
            FixAgentsIn(iteration + 1) =
                IF FixRoundDue THEN DeveloperNames ELSE << >>)
    /\ [][ Len(all_operations') > Len(all_operations) /\ pc = "fix"
             => /\ iteration >= 1
                /\ iteration + 1 < config.max_iterations
                /\ test_runs = 1 /\ ~test_results.success
                /\ config.agents[CHOOSE n \in 1..Len(config.agents) :
                       config.agents[n].name =
                           all_operations'[Len(all_operations')].agent].type
                      \in DeveloperTypes
                /\ all_operations'[Len(all_operations')].type = "test_fix"
                /\ all_operations'[Len(all_operations')].iteration = iteration + 1
                /\ Len(all_operations') = Len(all_operations) + 1 ]_vars

\* Lee and Bob, and not Quinn, have taken their fix turns of iteration 2 in
\* this order, after the failing test run of the iteration
C22_BothDevelopersFixed ==
    /\ pc = "check"
    /\ iteration = 1
    /\ FixRoundDue
    /\ FixAgentsIn(2) = << "Lee", "Bob" >>
    /\ TurnsIn(2) = 3

(***************************************************************************)
(* The agents' turns of an iteration and the context each of them is       *)
(* given.                                                                  *)
(***************************************************************************)
RosterNames == [ n \in 1..Len(file_agents) |-> file_agents[n].name ]

\* the records of the agents' turns (fix turns aside) of iteration number k
MainRecordsIn(k) ==
    SelectSeq(all_operations,
              LAMBDA rec : rec.iteration = k /\ "type" \notin DOMAIN rec)

MainAgentsIn(k) ==
    [ n \in 1..Len(MainRecordsIn(k)) |-> MainRecordsIn(k)[n].agent ]

\* the paths the records of iteration number k list as created or updated
WrittenIn(k) ==
    UNION { { rec.operations.created[m] : m \in 1..Len(rec.operations.created) }
            \cup { rec.operations.updated[m] : m \in 1..Len(rec.operations.updated) } :
            rec \in { all_operations[n] : n \in { j \in 1..Len(all_operations) :
                                                     all_operations[j].iteration = k } } }

\* C23: within an iteration the agents take their turns one at a time in
\* roster order, each exactly once (the turns recorded so far are the first
\* agents of the roster, and all of them once the turns are over), and from
\* the second iteration on the context of a turn holds exactly the files
\* list_files returns with the contents read_file returns in the workspace
\* as the earlier turns left it, so every listed file written earlier in
\* the iteration is in it
C23_TurnsInRosterOrderOnFreshWorkspace ==
    /\ [](pc # "start" =>
            /\ \A k \in 1..iteration : MainAgentsIn(k) = RosterNames
            /\ pc = "turn" =>
                   MainAgentsIn(iteration + 1) = SubSeq(RosterNames, 1, agent_index - 1)
            /\ pc \in { "tests", "fix", "retest", "check", "finish", "done" } =>
                   MainAgentsIn(iteration + 1) = RosterNames)
    /\ [][ Len(all_operations') = Len(all_operations) + 1 /\ pc = "turn" =>
             /\ context'.files =
                    IF iteration = 0 THEN << >>
                    ELSE [ n \in 1..Len(list_files(fm)) |->
                             << list_files(fm)[n],
                                read_file(fm, list_files(fm)[n]).content >> ]
             /\ iteration > 0 =>
                    \A p \in WrittenIn(iteration + 1) :
                        InsideRoot(FullPath(p)) /\ ~should_ignore_file(FullPath(p)) =>
                            \E n \in 1..Len(context'.files) :
                                /\ context'.files[n][1] = RelPath(FullPath(p))
                                /\ context'.files[n][2] = fm.files[FullPath(p)]
         ]_vars

\* the second agent of the second iteration has taken its turn, and its
\* context showed the file with the content the first agent had written in
\* that iteration
C23_ContextShowsEarlierTurn ==
    /\ pc = "tests"
    /\ iteration = 1
    /\ context.files = << << "test_a.py", "Y" >> >>
    /\ Len(MainRecordsIn(2)) = 2
    /\ MainRecordsIn(2)[1].operations.updated = << "test_a.py" >>
    /\ MainRecordsIn(1)[1].operations.created = << "test_a.py" >>
    /\ \A n \in 1..2 : MainRecordsIn(1)[n].operations.updated = << >>

(***************************************************************************)
(* The votes the completion check counts.                                  *)
(***************************************************************************)
\* C24: the vote count of an iteration is the number of completion signals
\* recorded in the agents' turns of that iteration, at most one per agent,
\* so it lies between 0 and the roster size; a turn adds one exactly when
\* its reply is a completion signal (and auto-stop is on, without which
\* there is no completion check), votes of earlier iterations are not
\* carried over, and a fix turn leaves the count as it is
C24_VotesOfThisIterationOnly ==
    /\ [](/\ 0 <= iteration_completion_count
          /\ iteration_completion_count <= Len(file_agents)
          /\ iteration_completion_count = VotesIn(iteration + 1)
          /\ \A k \in 1..(iteration + 1) : \A a \in 1..Len(file_agents) :
                Cardinality({ n \in 1..Len(completion_signals) :
                                 /\ completion_signals[n].iteration = k
                                 /\ completion_signals[n].agent = file_agents[a].name }) <= 1)
    /\ [][ /\ Len(all_operations') = Len(all_operations) + 1 /\ pc = "turn" =>
                \E response \in model_replies :
                    /\ all_operations'[Len(all_operations')].operations =
                           process_and_execute_file_operations(
                               fm, file_agents[agent_index].name, response).operations
                    /\ iteration_completion_count' =
                           iteration_completion_count
                           + (IF config.stop_on_complete /\ is_completion_signal(response)
                              THEN 1 ELSE 0)
           /\ pc = "fix" =>
                /\ iteration_completion_count' = iteration_completion_count
                /\ completion_signals' = completion_signals
         ]_vars

\* the completion check of the second iteration, after a fix round: the
\* agent voted in both iterations and the count is one
C24_SecondIterationCountsOneVote ==
    /\ pc = "check"
    /\ iteration = 1
    /\ fix_rounds = 1
    /\ Len(file_agents) = 1
    /\ VotesIn(1) = 1
    /\ iteration_completion_count = 1

(***************************************************************************)
(* Several blocks of one reply that name the same path.                    *)
(***************************************************************************)
WriteMarkers == { "filename", "update" }

\* the last create or update block of the reply that names the path
LastWriteFor(blocks, path) ==
    blocks[CHOOSE n \in 1..Len(blocks) :
              /\ blocks[n].path = path
              /\ blocks[n].marker \in WriteMarkers
              /\ \A m \in (n + 1)..Len(blocks) :
                    ~(blocks[m].path = path /\ blocks[m].marker \in WriteMarkers)]

\* the blocks are extracted in the order of the text, none dropped or merged
BlocksKeptInOrder ==
    /\ Len(last.file_blocks) = Len(last.blocks)
    /\ \A n \in 1..Len(last.blocks) :
          /\ last.file_blocks[n][2] = last.blocks[n].path
          /\ last.file_blocks[n][3] = last.blocks[n].body

\* C25: the operations of a reply are extracted in the order of its blocks,
\* none dropped or merged, and applied in that order, so that after the turn
\* a file named by a create or update block holds the content of the last
\* such block for its path
C25_LastBlockWins ==
    (last.op = "process" /\ last.blocks # << >>) =>
        /\ BlocksKeptInOrder
        /\ \A n \in 1..Len(last.blocks) :
              last.blocks[n].marker \in WriteMarkers =>
                  LET b == LastWriteFor(last.blocks, last.blocks[n].path)
                  IN  /\ IsFile(fm, FullPath(b.path))
                      /\ fm.files[FullPath(b.path)] = b.body

(***************************************************************************)
(* The report of a test run whose output has no counts.                    *)
(***************************************************************************)
\* runs of run_tests on a project with or without a test file; the test
\* process passes, fails with a summary line, fails without one, or times
\* out
ReportOutcomes ==
    { [ kind |-> "exit", returncode |-> 0, stdout |-> "1 passed in 0.01s", stderr |-> "" ],
      [ kind |-> "exit", returncode |-> 1,
        stdout |-> "1 failed, 1 passed in 0.02s", stderr |-> "" ],
      Unparseable, TimedOut }

InitReports == TestsStart(ReportOutcomes)

NextReports ==
    \/ CallCreateFile("test_main.py", "X")
    \/ CallRunTests

SpecReports == InitReports /\ [][NextReports]_vars

\* C26: a report has success = true only if the test process exited with
\* code 0; a run that exited with another code and whose output gave no
\* test counts is reported with success = false, failed >= 1 and an error
\* entry
C26_UnparsedFailureIsFailing ==
    last.op = "run_tests" =>
        /\ last.report.success =>
               /\ "error" \notin DOMAIN last.report
               /\ last.outcome.kind = "exit"
               /\ last.outcome.returncode = 0
        /\ ("error" \notin DOMAIN last.report /\ last.outcome = Unparseable) =>
               last.report.total_tests = 0
        /\ ("error" \notin DOMAIN last.report
              /\ last.outcome.returncode # 0
              /\ last.report.total_tests = 0) =>
               /\ ~last.report.success
               /\ last.report.failed >= 1
               /\ last.report.errors # << >>

\* the test command ran, exited with code 2 and printed no summary line
C26_UnparsedRunReported ==
    /\ last.op = "run_tests"
    /\ last.outcome = Unparseable
    /\ "error" \notin DOMAIN last.report
    /\ last.report.failed = 1
    /\ test_executor.test_history # << >>

(***************************************************************************)
(* The test history and the reports run_tests returns.                     *)
(***************************************************************************)
\* C27: every call of run_tests appends the report it returns to the test
\* history, so the report of the last call is the last history entry, and
\* the final_test_results of the run result are that entry
C27_ReturnedReportIsLastInHistory ==
    (test_executor # None /\ test_results # None) =>
        LET history == test_executor.test_history
        IN  /\ history # << >>
            /\ history[Len(history)] = test_results
            /\ pc = "done" =>
                   result.final_test_results = result.test_history[Len(result.test_history)]

(***************************************************************************)
(* The backup copy update_file writes.                                     *)
(***************************************************************************)
\* update_file was called on an existing file with another content
ChangingUpdate ==
    /\ last.op = "update_file"
    /\ IsFile(last.before, FullPath(last.file_path))
    /\ last.before.files[FullPath(last.file_path)] # last.content

\* C28: after update_file(p, c) on an existing file with another content
\* the backup copy p.backup holds the content p had before the call, p holds
\* c, and one update entry has been appended to the change log; if the files
\* cannot be written the call reports failure and changes nothing
C28_BackupHoldsPreviousContent ==
    ChangingUpdate =>
        LET full == FullPath(last.file_path)
            backup == FullPath(last.file_path \o ".backup")
        IN  /\ last.ok =>
                /\ IsFile(fm, backup)
                /\ fm.files[backup] = last.before.files[full]
                /\ fm.files[full] = last.content
                /\ \A g \in DOMAIN fm.files \ { full, backup } :
                      IsFile(last.before, g) /\ fm.files[g] = last.before.files[g]
                /\ fm.file_history =
                       Append(last.before.file_history,
                              [ action |-> "update", file |-> last.file_path,
                                agent |-> "client", success |-> TRUE ])
            /\ ~last.ok => fm = last.before

\* the second changing update of a file: the backup copy of the first one
\* has been overwritten
C28_BackupOverwritten ==
    /\ ChangingUpdate
    /\ last.ok
    /\ LET backup == FullPath(last.file_path \o ".backup")
       IN  /\ IsFile(last.before, backup)
           /\ last.before.files[backup] # fm.files[backup]

(***************************************************************************)
(* create_file on a path that exists.                                      *)
(***************************************************************************)
\* create_file was called on a path that was a file
CreateOverExisting ==
    /\ last.op = "create_file"
    /\ IsFile(last.before, FullPath(last.file_path))

\* the backup copies that the last call wrote or overwrote
BackupsWritten ==
    { g \in DOMAIN fm.files :
         /\ EndsWith(Name(g), ".backup")
         /\ ~(IsFile(last.before, g) /\ last.before.files[g] = fm.files[g]) }

MalformedReplies ==
    { "I reviewed the code and have nothing to add.",
      FENCE \o "read: a.py" \o FENCE,
      FENCE \o "filename: a.py\nX",
      FENCE \o "update: ;;;\nX\n" \o FENCE,
      FENCE \o "filename:\nprint(1)\n" \o FENCE }

\* C29: a reply with malformed or missing blocks yields no operation and
\* changes nothing in the workspace
C29_MalformedReplyChangesNothing ==
    (last.op = "process" /\ last.response \in MalformedReplies) =>
        /\ last.file_blocks = << >>
        /\ last.operations = NoOperations
        /\ fm = last.before

====
